---- MODULE Spec2Model ----
(***************************************************************************)
(* Verification model of the Document layer of unsafe-libyaml              *)
(* (src/src/document.rs): Document::load composes a node graph from the    *)
(* events a Parser produces.                                               *)
(*                                                                         *)
(* The Parser itself (scanner, token queue, grammar automaton) is not part *)
(* of the sources at hand; it is modelled from the specification as a      *)
(* generator of grammatical event streams that may fail at any call.       *)
(*                                                                         *)
(* One load call is a sequence of steps, one per parser.parse() call of    *)
(* its loop; pc is the position of the call.  Fields that no handler of    *)
(* the composer reads (styles, version and tag directives, the implicit    *)
(* flags, the document marks) are left out of the records.                 *)
(***************************************************************************)
EXTENDS Integers, Sequences, FiniteSets, TLC

(* ------------------------------ bounds -------------------------------- *)

\* Events one parser produces over its life.
MaxEvents == 8
\* Node events (Scalar, Alias, SequenceStart, MappingStart) of one document.
MaxNodeEvents == 3
\* Load calls made on one parser.
MaxLoads == 4

(* ----------------------------- constants ------------------------------ *)

\* Option::None, for anchors and tags.
None == "None"

\* yaml_encoding_t
YAML_ANY_ENCODING == "Any"
Encodings == {"Any", "Utf8", "Utf16Le", "Utf16Be"}

\* Option<&str> over a text kept as a sequence of characters.
NoStr == [some |-> FALSE, value |-> <<>>]
SomeStr(v) == [some |-> TRUE, value |-> v]

\* The harness before its first line: no fields, and yaml_event_t::default().
NoFields == [anchor |-> NoStr, tag |-> NoStr, sigil |-> "", value |-> <<>>]
NoEvent == [type |-> "NoEvent"]

DEFAULT_SCALAR_TAG == "tag:yaml.org,2002:str"
DEFAULT_SEQUENCE_TAG == "tag:yaml.org,2002:seq"
DEFAULT_MAPPING_TAG == "tag:yaml.org,2002:map"

\* The anchor names, tags and scalar values the input may carry.
AnchorNames == {"a", "b"}
OptAnchors == AnchorNames \cup {None}
OptTags == {None, "!", "!t"}
\* The tags of the inputs that exercise anchors and aliases.
FewTags == {None, "!t"}
Values == {"1"}

(* ------------------------------ state --------------------------------- *)

VARIABLES
    state,                  \* parser: state of the grammar automaton
    states,                 \* parser: stack of the open collections
    mark,                   \* parser: number of events produced so far
    stream_start_produced,  \* parser.scanner.stream_start_produced
    stream_end_produced,    \* parser.scanner.stream_end_produced
    aliases,                \* parser.aliases: the alias table
    pc,                     \* position of the load call: idle, nodes, panic
    nodes,                  \* document.nodes of the document being loaded
    ctx,                    \* load_document's stack of open collection ids
    result,                 \* what the last load call returned
    panicked,               \* message of the panic that ended the program
    events,                 \* outcomes of the parse() calls of this load call
    loads,                  \* number of load calls made so far
    prevAnchors,            \* anchors registered by earlier load calls
    doc,                    \* document.nodes of the document the caller builds
    ret,                    \* what the last call on that document returned
    dnodes,                 \* self.nodes of the document inside dump
    stack,                  \* dump: the visits and collection ends to come
    anchors,                \* emitter.anchors
    last_anchor_id,         \* emitter.last_anchor_id
    opened,                 \* emitter.opened
    closed,                 \* emitter.closed
    emitted,                \* events the emitter accepted, in order
    dpc,                    \* position of the dump call: idle, nodes
    dresult,                \* what the last dump call returned
    dumps,                  \* number of dump calls made so far
    visits,                 \* ids dump_node was called with, in order
    write_handler,          \* emitter.write_handler: None or string
    output,                 \* emitter.output: buffer, size, size_written
    offered,                \* every byte handed to the write handler, in order
    written,                \* the last write handler call: its size argument,
                            \* size_written before it, and what it returned
    read_handler,           \* parser.read_handler: None or string
    input,                  \* parser.input: start, current, end, and the
                            \* bytes of the caller's string
    delivered,              \* every byte the read handler delivered, in order
    read,                   \* the last read handler call: its size argument,
                            \* input.current before it, and what it returned
    best_indent,            \* emitter.best_indent
    best_width,             \* emitter.best_width
    requested,              \* the last indent and the last width asked for,
                            \* each <<>> before the first call
    scanner,                \* a Scanner of its own, and whether it has input
    parser_borrowed,        \* a Parser reading the caller's string
    parser_owned,           \* a Parser owning its input
    parser_encoding,        \* parser.encoding
    emitter_encoding,       \* emitter.encoding
    queued,                 \* the number of events in emitter.events
    deletes,                \* the yaml_emitter_delete calls so far
    line_buffer,            \* the line the emitter test harness read
    fields,                 \* the fields that line was written from
    line_event,             \* the event the harness made of the line
    turns                   \* the lines the harness read from this input

loadVars == <<state, states, mark, stream_start_produced, stream_end_produced,
              aliases, pc, nodes, ctx, result, panicked, events, loads,
              prevAnchors>>

apiVars == <<doc, ret>>

emitterVars == <<anchors, last_anchor_id, opened, closed, emitted>>

dumpVars == <<dnodes, stack, dpc, dresult, dumps, visits>>

writeVars == <<write_handler, output, offered, written>>

readVars == <<read_handler, input, delivered, read>>

settingVars == <<best_indent, best_width, requested>>

scanVars == <<scanner, parser_borrowed, parser_owned>>

installVars == <<parser_encoding, emitter_encoding, queued, deletes>>

harnessVars == <<line_buffer, fields, line_event, turns>>

handlerVars == <<writeVars, readVars, settingVars, scanVars, installVars,
                 harnessVars>>

vars == <<loadVars, apiVars, emitterVars, dumpVars, handlerVars>>

parserVars == <<state, states, mark, stream_start_produced,
                stream_end_produced>>

(* ----------------------------- helpers -------------------------------- *)

Last(s) == s[Len(s)]

Front(s) == SubSeq(s, 1, Len(s) - 1)

MinOf(S) == CHOOSE x \in S : \A y \in S : x <= y

\* Mark::default()
DefaultMark == 0

(* ------------------------------ errors -------------------------------- *)

NoError ==
    [kind |-> "none", context |-> "", context_mark |-> DefaultMark,
     problem |-> "", problem_mark |-> DefaultMark]

\* Error::composer(context, context_mark, problem, problem_mark)
ComposerError(context, context_mark, problem, problem_mark) ==
    [kind |-> "composer", context |-> context, context_mark |-> context_mark,
     problem |-> problem, problem_mark |-> problem_mark]

\* An error of the reader, the scanner or the parser, returned by parse().
ParseFailure(m) ==
    [kind |-> "parser", context |-> "", context_mark |-> DefaultMark,
     problem |-> "parse error", problem_mark |-> 2 * m]

(* ------------------------------ parser -------------------------------- *)

NodeEventTypes == {"Scalar", "Alias", "SequenceStart", "MappingStart"}

\* The event produced as number m: its marks follow the position in the
\* input, so they grow with m and the end lies behind the start.
Event(type, anchor, tag, value, m) ==
    [type |-> type, anchor |-> anchor, tag |-> tag, value |-> value,
     start_mark |-> 2 * m, end_mark |-> 2 * m + 1]

\* The outcome of a failed parse() call, as recorded in events.
FailedEvent(m) == Event("Error", None, None, "", m)

\* The event types parse() may return in parser state st with stack sts.
Expected(st, sts) ==
    CASE st = "StreamStart" -> {"StreamStart"}
      [] st = "DocumentStart" -> {"DocumentStart", "StreamEnd"}
      [] st = "DocumentContent" -> NodeEventTypes
      [] st = "DocumentEnd" -> {"DocumentEnd"}
      [] st = "Node" /\ Last(sts) = "SequenceEntry" ->
            NodeEventTypes \cup {"SequenceEnd"}
      [] st = "Node" /\ Last(sts) = "MappingKey" ->
            NodeEventTypes \cup {"MappingEnd"}
      [] st = "Node" /\ Last(sts) = "MappingValue" -> NodeEventTypes
      [] OTHER -> {}

\* The stack once the node at its top position is complete.
NodeDone(sts) ==
    IF sts = <<>> THEN sts
    ELSE IF Last(sts) = "MappingKey" THEN Append(Front(sts), "MappingValue")
    ELSE IF Last(sts) = "MappingValue" THEN Append(Front(sts), "MappingKey")
    ELSE sts

\* The parser after it returned an event of the given type.
ParserAfter(st, sts, type) ==
    CASE type = "StreamStart" -> [state |-> "DocumentStart", states |-> sts]
      [] type = "StreamEnd" -> [state |-> "End", states |-> sts]
      [] type = "DocumentStart" ->
            [state |-> "DocumentContent", states |-> sts]
      [] type = "DocumentEnd" -> [state |-> "DocumentStart", states |-> sts]
      [] type \in {"Scalar", "Alias"} ->
            [state |-> IF sts = <<>> THEN "DocumentEnd" ELSE "Node",
             states |-> NodeDone(sts)]
      [] type = "SequenceStart" ->
            [state |-> "Node",
             states |-> Append(NodeDone(sts), "SequenceEntry")]
      [] type = "MappingStart" ->
            [state |-> "Node", states |-> Append(NodeDone(sts), "MappingKey")]
      [] type \in {"SequenceEnd", "MappingEnd"} ->
            [state |-> IF Len(sts) = 1 THEN "DocumentEnd" ELSE "Node",
             states |-> Front(sts)]

\* parse() may be called and may fail: the parser is neither at the end of
\* the stream nor in its error state.
CanParse(st, m) == st \notin {"End", "Error"} /\ m < MaxEvents

(* ----------------------------- composer ------------------------------- *)

\* A Node; data is the variant named by kind.
ScalarNode(tag, value, start_mark, end_mark) ==
    [kind |-> "Scalar", value |-> value, items |-> <<>>, pairs |-> <<>>,
     tag |-> tag, start_mark |-> start_mark, end_mark |-> end_mark]

SequenceNode(tag, start_mark, end_mark) ==
    [kind |-> "Sequence", value |-> "", items |-> <<>>, pairs |-> <<>>,
     tag |-> tag, start_mark |-> start_mark, end_mark |-> end_mark]

MappingNode(tag, start_mark, end_mark) ==
    [kind |-> "Mapping", value |-> "", items |-> <<>>, pairs |-> <<>>,
     tag |-> tag, start_mark |-> start_mark, end_mark |-> end_mark]

NodePair(key, value) == [key |-> key, value |-> value]

\* Node::default(): what core::mem::take leaves in place of a node.
NoNode ==
    [kind |-> "NoNode", value |-> "", items |-> <<>>, pairs |-> <<>>,
     tag |-> None, start_mark |-> DefaultMark, end_mark |-> DefaultMark]

\* What a call on the document the caller builds returned: the operation,
\* the id it returned (0 for none) and the node it returned (NoNode for
\* none); found tells Some from None; tag and args are the tag and the ids
\* the caller passed.
Returned(op, id, found, node) ==
    [op |-> op, id |-> id, found |-> found, node |-> node, tag |-> None,
     args |-> <<>>]

NoCall == Returned("", 0, FALSE, NoNode)

\* What a handler of load_nodes leaves behind: the document's nodes, the
\* alias table, the context stack, the error it returned (NoError for Ok),
\* the message of its panic ("" for none), and whether the loop is left.
Step(ns, al, cx, err, panic, done) ==
    [nodes |-> ns, aliases |-> al, ctx |-> cx, err |-> err, panic |-> panic,
     done |-> done]

\* parser.delete_aliases()
delete_aliases(al) == <<>>

\* Mutant of register_anchor: the table is not searched for the name.
register_anchor_Unchecked(ns, al, index, anchor) ==
    IF anchor = None THEN [err |-> NoError, aliases |-> al]
    ELSE [err |-> NoError,
          aliases |-> Append(al, [anchor |-> anchor, index |-> index,
                                  mark |-> ns[index].start_mark])]

\* Document::register_anchor: [err, aliases]
register_anchor(ns, al, index, anchor) ==
    IF anchor = None THEN [err |-> NoError, aliases |-> al]
    ELSE
        LET data == [anchor |-> anchor, index |-> index,
                     mark |-> ns[index].start_mark]
            same == {i \in 1..Len(al) : al[i].anchor = data.anchor}
        IN  IF same # {}
            THEN [err |-> ComposerError(
                              "found duplicate anchor; first occurrence",
                              al[MinOf(same)].mark,
                              "second occurrence", data.mark),
                  aliases |-> al]
            ELSE [err |-> NoError, aliases |-> Append(al, data)]

\* Mutant of load_node_add: a mapping never fills the value of its last
\* pair, every node starts a pair.
load_node_add_NeverFills(ns, cx, index) ==
    IF cx = <<>> THEN [nodes |-> ns, panic |-> ""]
    ELSE IF ns[Last(cx)].kind = "Sequence"
    THEN [nodes |-> [ns EXCEPT ![Last(cx)].items = Append(@, index)],
          panic |-> ""]
    ELSE [nodes |-> [ns EXCEPT ![Last(cx)].pairs =
                        Append(@, NodePair(index, 0))],
          panic |-> ""]

\* Mutant of load_node_add: a sequence takes the item at its front.
load_node_add_Prepends(ns, cx, index) ==
    IF cx = <<>> THEN [nodes |-> ns, panic |-> ""]
    ELSE IF ns[Last(cx)].kind = "Sequence"
    THEN [nodes |-> [ns EXCEPT ![Last(cx)].items = <<index>> \o @],
          panic |-> ""]
    ELSE IF ns[Last(cx)].pairs # <<>> /\ Last(ns[Last(cx)].pairs).value = 0
    THEN [nodes |-> [ns EXCEPT
                ![Last(cx)].pairs[Len(ns[Last(cx)].pairs)].value = index],
          panic |-> ""]
    ELSE [nodes |-> [ns EXCEPT ![Last(cx)].pairs =
                        Append(@, NodePair(index, 0))],
          panic |-> ""]

\* Document::load_node_add: [nodes, panic]
load_node_add(ns, cx, index) ==
    IF cx = <<>> THEN [nodes |-> ns, panic |-> ""]
    ELSE
        LET parent_index == Last(cx)
            parent == ns[parent_index]
        IN  CASE parent.kind = "Sequence" ->
                    [nodes |-> [ns EXCEPT ![parent_index].items =
                                    Append(parent.items, index)],
                     panic |-> ""]
              [] parent.kind = "Mapping" ->
                    IF parent.pairs # <<>> /\ Last(parent.pairs).value = 0
                    THEN [nodes |-> [ns EXCEPT
                                ![parent_index].pairs[Len(parent.pairs)].value
                                    = index],
                          panic |-> ""]
                    ELSE [nodes |-> [ns EXCEPT ![parent_index].pairs =
                                    Append(parent.pairs, NodePair(index, 0))],
                          panic |-> ""]
              [] OTHER ->
                    [nodes |-> ns,
                     panic |->
                       "document parent node is not a sequence or a mapping"]

\* Mutant of load_alias: the newest node is attached, whatever node the
\* anchor was registered for.
load_alias_Newest(ns, al, cx, event) ==
    IF \E i \in 1..Len(al) : al[i].anchor = event.anchor
    THEN Step(load_node_add(ns, cx, Len(ns)).nodes, al, cx, NoError, "",
              FALSE)
    ELSE Step(ns, al, cx,
              ComposerError("", DefaultMark, "found undefined alias",
                            event.start_mark),
              "", FALSE)

\* Mutant of load_alias: the alias gets a node of its own, a copy of the
\* node registered.
load_alias_Copies(ns, al, cx, event) ==
    LET found == {i \in 1..Len(al) : al[i].anchor = event.anchor}
    IN  IF found # {}
        THEN LET copied == Append(ns, ns[al[MinOf(found)].index])
             IN  Step(load_node_add(copied, cx, Len(copied)).nodes, al, cx,
                      NoError, "", FALSE)
        ELSE Step(ns, al, cx,
                  ComposerError("", DefaultMark, "found undefined alias",
                                event.start_mark),
                  "", FALSE)

\* Mutant of load_alias: the parent is attached to itself.
load_alias_Parent(ns, al, cx, event) ==
    IF (\E i \in 1..Len(al) : al[i].anchor = event.anchor) /\ cx # <<>>
    THEN Step(load_node_add(ns, cx, Last(cx)).nodes, al, cx, NoError, "",
              FALSE)
    ELSE Step(ns, al, cx,
              ComposerError("", DefaultMark, "found undefined alias",
                            event.start_mark),
              "", FALSE)

\* Document::load_alias
load_alias(ns, al, cx, event) ==
    LET found == {i \in 1..Len(al) : al[i].anchor = event.anchor}
    IN  IF found # {}
        THEN LET added == load_node_add(ns, cx, al[MinOf(found)].index)
             IN  Step(added.nodes, al, cx, NoError, added.panic, FALSE)
        ELSE Step(ns, al, cx,
                  ComposerError("", DefaultMark, "found undefined alias",
                                event.start_mark),
                  "", FALSE)

\* The tail shared by load_scalar, load_sequence and load_mapping: the node
\* was pushed as the last of ns; register its anchor, attach it, and push it
\* on the context stack if it is a collection.
AddNode(ns, al, cx, anchor, open) ==
    LET index == Len(ns)
        registered == register_anchor(ns, al, index, anchor)
        added == load_node_add(ns, cx, index)
    IN  IF registered.err # NoError
        THEN Step(ns, al, cx, registered.err, "", FALSE)
        ELSE IF added.panic # ""
        THEN Step(ns, registered.aliases, cx, NoError, added.panic, FALSE)
        ELSE Step(added.nodes, registered.aliases,
                  IF open THEN Append(cx, index) ELSE cx, NoError, "", FALSE)

\* Mutant of ResolveTag: the non-specific tag "!" is kept.
ResolveTag_KeepsBang(tag, default) ==
    IF tag = None THEN default ELSE tag

\* The tag a node gets: the event's, or the default of its kind.
ResolveTag(tag, default) ==
    IF tag = None \/ tag = "!" THEN default ELSE tag

\* Mutant of load_scalar: the node is put in front of the others.
load_scalar_Inserts(ns, al, cx, event) ==
    LET node == ScalarNode(ResolveTag(event.tag, DEFAULT_SCALAR_TAG),
                           event.value, event.start_mark, event.end_mark)
    IN  AddNode(<<node>> \o ns, al, cx, event.anchor, FALSE)

\* Document::load_scalar
load_scalar(ns, al, cx, event) ==
    LET node == ScalarNode(ResolveTag(event.tag, DEFAULT_SCALAR_TAG),
                           event.value, event.start_mark, event.end_mark)
    IN  AddNode(Append(ns, node), al, cx, event.anchor, FALSE)

\* Mutant of load_sequence: the anchor is not registered at the start
\* event.
load_sequence_Unregistered(ns, al, cx, event) ==
    AddNode(Append(ns, SequenceNode(ResolveTag(event.tag,
                                               DEFAULT_SEQUENCE_TAG),
                                    event.start_mark, event.end_mark)),
            al, cx, None, TRUE)

\* Document::load_sequence
load_sequence(ns, al, cx, event) ==
    LET node == SequenceNode(ResolveTag(event.tag, DEFAULT_SEQUENCE_TAG),
                             event.start_mark, event.end_mark)
    IN  AddNode(Append(ns, node), al, cx, event.anchor, TRUE)

\* Document::load_mapping
load_mapping(ns, al, cx, event) ==
    LET node == MappingNode(ResolveTag(event.tag, DEFAULT_MAPPING_TAG),
                            event.start_mark, event.end_mark)
    IN  AddNode(Append(ns, node), al, cx, event.anchor, TRUE)

\* Mutant of CollectionEnd: the collection stays on the context stack.
CollectionEnd_KeepsOpen(ns, al, cx, event, kind, what) ==
    IF cx = <<>>
    THEN Step(ns, al, cx, NoError, what, FALSE)
    ELSE IF ns[Last(cx)].kind # kind
    THEN Step(ns, al, cx, NoError, "assertion failed", FALSE)
    ELSE Step([ns EXCEPT ![Last(cx)].end_mark = event.end_mark], al,
              cx, NoError, "", FALSE)

\* Document::load_sequence_end and Document::load_mapping_end, for the
\* collection kind they assert.
CollectionEnd(ns, al, cx, event, kind, what) ==
    IF cx = <<>>
    THEN Step(ns, al, cx, NoError, what, FALSE)
    ELSE IF ns[Last(cx)].kind # kind
    THEN Step(ns, al, cx, NoError, "assertion failed", FALSE)
    ELSE Step([ns EXCEPT ![Last(cx)].end_mark = event.end_mark], al,
              Front(cx), NoError, "", FALSE)

load_sequence_end(ns, al, cx, event) ==
    CollectionEnd(ns, al, cx, event, "Sequence",
                  "sequence_end without a current sequence")

load_mapping_end(ns, al, cx, event) ==
    CollectionEnd(ns, al, cx, event, "Mapping",
                  "mapping_end without a current mapping")

\* One turn of the loop of Document::load_nodes on the event parse() gave.
load_nodes(ns, al, cx, event) ==
    CASE event.type = "StreamStart" ->
            Step(ns, al, cx, NoError, "unexpected stream start event", FALSE)
      [] event.type = "StreamEnd" ->
            Step(ns, al, cx, NoError, "unexpected stream end event", FALSE)
      [] event.type = "DocumentStart" ->
            Step(ns, al, cx, NoError, "unexpected document start event",
                 FALSE)
      [] event.type = "DocumentEnd" -> Step(ns, al, cx, NoError, "", TRUE)
      [] event.type = "Alias" -> load_alias(ns, al, cx, event)
      [] event.type = "Scalar" -> load_scalar(ns, al, cx, event)
      [] event.type = "SequenceStart" -> load_sequence(ns, al, cx, event)
      [] event.type = "SequenceEnd" -> load_sequence_end(ns, al, cx, event)
      [] event.type = "MappingStart" -> load_mapping(ns, al, cx, event)
      [] event.type = "MappingEnd" -> load_mapping_end(ns, al, cx, event)

(* --------------------------- return values ---------------------------- *)

\* Result<Document>: Ok(document), Err(error); NoResult before any call.
NoResult == [tag |-> "None", nodes |-> <<>>, err |-> NoError]

Ok(ns) == [tag |-> "Ok", nodes |-> ns, err |-> NoError]

Err(e) == [tag |-> "Err", nodes |-> <<>>, err |-> e]

\* The anchors of an alias table.
AnchorsOf(al) == {al[i].anchor : i \in 1..Len(al)}

\* Scanner::new(): no input, no token.
NoScanner ==
    [text |-> <<>>, mark |-> [index |-> 0, line |-> 0, column |-> 0],
     tokens |-> <<>>, tokens_parsed |-> 0, indents |-> <<>>, indent |-> -1,
     simple_key_allowed |-> FALSE,
     simple_key |-> [possible |-> FALSE, required |-> FALSE,
                     token_number |-> 0,
                     mark |-> [index |-> 0, line |-> 0, column |-> 0]],
     stream_start_produced |-> FALSE, stream_end_produced |-> FALSE,
     error |-> NoError]

\* Parser::new(): no input, no event; bytes are the bytes of the input.
NoParser ==
    [input |-> FALSE, bytes |-> <<>>,
     q |-> [scanner |-> NoScanner, state |-> "StreamStart", states |-> <<>>,
            events |-> <<>>, refused |-> 0, error |-> NoError]]

(* ---------------------------- Document::load --------------------------- *)

Init ==
    /\ state = "StreamStart"
    /\ states = <<>>
    /\ mark = 0
    /\ stream_start_produced = FALSE
    /\ stream_end_produced = FALSE
    /\ aliases = <<>>
    /\ pc = "idle"
    /\ nodes = <<>>
    /\ ctx = <<>>
    /\ result = NoResult
    /\ panicked = ""
    /\ events = <<>>
    /\ loads = 0
    /\ prevAnchors = {}
    /\ doc = <<>>
    /\ ret = NoCall
    /\ dnodes = <<>>
    /\ stack = <<>>
    /\ anchors = <<>>
    /\ last_anchor_id = 0
    /\ opened = FALSE
    /\ closed = FALSE
    /\ emitted = <<>>
    /\ dpc = "idle"
    /\ dresult = "None"
    /\ dumps = 0
    /\ visits = <<>>
    /\ write_handler = None
    /\ output = [buffer |-> <<>>, size |-> 0, size_written |-> 0]
    /\ offered = <<>>
    /\ written = [called |-> FALSE, value |-> 0, size |-> 0, at |-> 0]
    /\ read_handler = None
    /\ input = [bytes |-> <<>>, start |-> 0, current |-> 0, end |-> 0]
    /\ delivered = <<>>
    /\ read = [called |-> FALSE, value |-> 0, size |-> 0, at |-> 0,
               size_read |-> 0, buffer |-> <<>>]
    /\ best_indent = 2
    /\ best_width = 80
    /\ requested = [indent |-> <<>>, width |-> <<>>]
    /\ scanner = [input |-> FALSE, s |-> NoScanner]
    /\ parser_borrowed = NoParser
    /\ parser_owned = NoParser
    /\ parser_encoding = YAML_ANY_ENCODING
    /\ emitter_encoding = YAML_ANY_ENCODING
    /\ queued = 0
    /\ deletes = 0
    /\ line_buffer = <<>>
    /\ fields = NoFields
    /\ line_event = NoEvent
    /\ turns = 0

\* The caller may call load: no call is running, the program has not
\* panicked, and the parser was not discarded after an error of its own.
CanLoad == pc = "idle" /\ state # "Error" /\ loads < MaxLoads

\* Mutant of StreamStarted: the stream start is parsed on every call.
StreamStarted_Always ==
    [state |-> IF ~stream_start_produced
               THEN ParserAfter(state, states, "StreamStart").state
               ELSE state,
     mark |-> mark + 1,
     events |-> <<Event("StreamStart", None, None, "", mark + 1)>>]

\* The first step of load: parse() for the stream start, made only while the
\* scanner has not produced it.  The parser and the events after it.
StreamStarted ==
    IF ~stream_start_produced
    THEN [state |-> ParserAfter(state, states, "StreamStart").state,
          mark |-> mark + 1,
          events |-> <<Event("StreamStart", None, None, "", mark + 1)>>]
    ELSE [state |-> state, mark |-> mark, events |-> <<>>]

\* Mutant of ReturnErr: the document built so far comes with the error.
ReturnErr_Partial(ns, e) == [tag |-> "Err", nodes |-> ns, err |-> e]

\* What load hands to its caller on failure: the error alone; the document
\* built so far, ns, is dropped.
ReturnErr(ns, e) == Err(e)

\* What load hands to its caller on success.
ReturnOk(ns) == Ok(ns)

\* Mutant of Return: load returns without deleting the alias table.
Return_KeepsAliases(r, al) ==
    /\ pc' = "idle"
    /\ result' = r
    /\ aliases' = al
    /\ prevAnchors' = prevAnchors \cup AnchorsOf(al)
    /\ nodes' = <<>>
    /\ ctx' = <<>>
    /\ UNCHANGED panicked

\* load returns r: the alias table is deleted, the locals are gone.
Return(r, al) ==
    /\ pc' = "idle"
    /\ result' = r
    /\ aliases' = delete_aliases(al)
    /\ prevAnchors' = prevAnchors \cup AnchorsOf(al)
    /\ nodes' = <<>>
    /\ ctx' = <<>>
    /\ UNCHANGED panicked

\* load: the parse() call for the stream start fails.
LoadStreamStartError ==
    /\ CanLoad
    /\ ~stream_start_produced
    /\ CanParse(state, mark)
    /\ state' = "Error"
    /\ events' = <<FailedEvent(mark + 1)>>
    /\ loads' = loads + 1
    /\ Return(ReturnErr(<<>>, ParseFailure(mark + 1)), aliases)
    /\ UNCHANGED <<states, mark, stream_start_produced, stream_end_produced>>

\* load: the stream end was produced already; an empty document is returned
\* without a parse() call.
LoadAfterStreamEnd ==
    /\ CanLoad
    /\ stream_start_produced
    /\ stream_end_produced
    /\ events' = <<>>
    /\ loads' = loads + 1
    /\ pc' = "idle"
    /\ result' = ReturnOk(<<>>)
    /\ nodes' = <<>>
    /\ ctx' = <<>>
    /\ UNCHANGED <<parserVars, aliases, prevAnchors, panicked>>

\* load: the event after the stream start is the stream end.
LoadStreamEnd ==
    /\ CanLoad
    /\ LET p == StreamStarted
       IN  /\ ~stream_end_produced
           /\ CanParse(p.state, p.mark)
           /\ "StreamEnd" \in Expected(p.state, states)
           /\ state' = ParserAfter(p.state, states, "StreamEnd").state
           /\ mark' = p.mark + 1
           /\ stream_start_produced' = TRUE
           /\ stream_end_produced' = TRUE
           /\ events' = Append(p.events,
                               Event("StreamEnd", None, None, "", p.mark + 1))
           /\ loads' = loads + 1
           /\ pc' = "idle"
           /\ result' = ReturnOk(<<>>)
           /\ nodes' = <<>>
           /\ ctx' = <<>>
           /\ UNCHANGED <<states, aliases, prevAnchors, panicked>>

\* load: the parse() call after the stream start fails.
LoadParseError ==
    /\ CanLoad
    /\ LET p == StreamStarted
       IN  /\ ~stream_end_produced
           /\ CanParse(p.state, p.mark)
           /\ state' = "Error"
           /\ mark' = p.mark
           /\ stream_start_produced' = TRUE
           /\ events' = Append(p.events, FailedEvent(p.mark + 1))
           /\ loads' = loads + 1
           /\ Return(ReturnErr(<<>>, ParseFailure(p.mark + 1)), aliases)
           /\ UNCHANGED <<states, stream_end_produced>>

\* load: the event is a document start; load_document takes it and enters
\* the loop of load_nodes with an empty context stack.
LoadDocumentStart ==
    /\ CanLoad
    /\ LET p == StreamStarted
       IN  /\ ~stream_end_produced
           /\ CanParse(p.state, p.mark)
           /\ "DocumentStart" \in Expected(p.state, states)
           /\ state' = ParserAfter(p.state, states, "DocumentStart").state
           /\ mark' = p.mark + 1
           /\ stream_start_produced' = TRUE
           /\ events' = Append(p.events,
                          Event("DocumentStart", None, None, "", p.mark + 1))
           /\ loads' = loads + 1
           /\ pc' = "nodes"
           /\ result' = NoResult
           /\ nodes' = <<>>
           /\ ctx' = <<>>
           /\ UNCHANGED <<states, stream_end_produced, aliases, prevAnchors,
                          panicked>>

\* load: the event is neither a stream end nor a document start (the parser
\* was left inside a document by a load that failed in the composer);
\* load_document panics.
LoadNotDocumentStart ==
    /\ CanLoad
    /\ LET p == StreamStarted
       IN  /\ ~stream_end_produced
           /\ CanParse(p.state, p.mark)
           /\ \E type \in Expected(p.state, states)
                            \ {"StreamEnd", "DocumentStart"} :
                /\ state' = ParserAfter(p.state, states, type).state
                /\ states' = ParserAfter(p.state, states, type).states
                /\ events' = Append(p.events,
                                    Event(type, None, None, "", p.mark + 1))
           /\ mark' = p.mark + 1
           /\ stream_start_produced' = TRUE
           /\ loads' = loads + 1
           /\ pc' = "panic"
           /\ panicked' = "Expected YAML_DOCUMENT_START_EVENT"
           /\ result' = NoResult
           /\ UNCHANGED <<stream_end_produced, aliases, prevAnchors, nodes,
                          ctx>>

\* What follows a turn of the loop of load_nodes that left r behind.
Finish(r) ==
    IF r.panic # ""
    THEN /\ pc' = "panic"
         /\ panicked' = r.panic
         /\ nodes' = r.nodes
         /\ aliases' = r.aliases
         /\ ctx' = r.ctx
         /\ UNCHANGED <<result, prevAnchors>>
    ELSE IF r.err # NoError
    THEN Return(ReturnErr(r.nodes, r.err), r.aliases)
    ELSE IF r.done
    THEN Return(ReturnOk(r.nodes), r.aliases)
    ELSE /\ pc' = "nodes"
         /\ nodes' = r.nodes
         /\ aliases' = r.aliases
         /\ ctx' = r.ctx
         /\ UNCHANGED <<result, prevAnchors, panicked>>

\* The node events among the outcomes evs.
NodeEvents(evs) == SelectSeq(evs, LAMBDA e : e.type \in NodeEventTypes)

\* One turn of the loop of load_nodes: parse() returns the event, which is
\* one the grammar allows here, and its handler runs.
LoadNodes(event) ==
    /\ pc = "nodes"
    /\ CanParse(state, mark)
    /\ event.type \in Expected(state, states)
    /\ event.type \in NodeEventTypes =>
            Len(NodeEvents(events)) < MaxNodeEvents
    /\ state' = ParserAfter(state, states, event.type).state
    /\ states' = ParserAfter(state, states, event.type).states
    /\ mark' = mark + 1
    /\ events' = Append(events, event)
    /\ Finish(load_nodes(nodes, aliases, ctx, event))
    /\ UNCHANGED <<stream_start_produced, stream_end_produced, loads>>

LoadScalarOf(tags) ==
    \E anchor \in OptAnchors, tag \in tags, value \in Values :
        LoadNodes(Event("Scalar", anchor, tag, value, mark + 1))

LoadScalar == LoadScalarOf(FewTags)

LoadAlias ==
    \E anchor \in AnchorNames :
        LoadNodes(Event("Alias", anchor, None, "", mark + 1))

LoadSequenceStartOf(tags) ==
    \E anchor \in OptAnchors, tag \in tags :
        LoadNodes(Event("SequenceStart", anchor, tag, "", mark + 1))

LoadSequenceStart == LoadSequenceStartOf(FewTags)

LoadSequenceEnd == LoadNodes(Event("SequenceEnd", None, None, "", mark + 1))

LoadMappingStartOf(tags) ==
    \E anchor \in OptAnchors, tag \in tags :
        LoadNodes(Event("MappingStart", anchor, tag, "", mark + 1))

LoadMappingStart == LoadMappingStartOf(FewTags)

LoadMappingEnd == LoadNodes(Event("MappingEnd", None, None, "", mark + 1))

LoadDocumentEnd == LoadNodes(Event("DocumentEnd", None, None, "", mark + 1))

\* The parse() call of the loop of load_nodes fails: the error goes up
\* through load_document to load, which returns it.
LoadNodesError ==
    /\ pc = "nodes"
    /\ CanParse(state, mark)
    /\ state' = "Error"
    /\ events' = Append(events, FailedEvent(mark + 1))
    /\ Return(ReturnErr(nodes, ParseFailure(mark + 1)), aliases)
    /\ UNCHANGED <<states, mark, stream_start_produced, stream_end_produced,
                   loads>>

\* Document::load alone: the document API, the emitter and the write
\* handler are not used.
Next ==
    \/ LoadStreamStartError /\ UNCHANGED <<apiVars, emitterVars, dumpVars, handlerVars>>
    \/ LoadAfterStreamEnd /\ UNCHANGED <<apiVars, emitterVars, dumpVars, handlerVars>>
    \/ LoadStreamEnd /\ UNCHANGED <<apiVars, emitterVars, dumpVars, handlerVars>>
    \/ LoadParseError /\ UNCHANGED <<apiVars, emitterVars, dumpVars, handlerVars>>
    \/ LoadDocumentStart /\ UNCHANGED <<apiVars, emitterVars, dumpVars, handlerVars>>
    \/ LoadNotDocumentStart /\ UNCHANGED <<apiVars, emitterVars, dumpVars, handlerVars>>
    \/ LoadScalar /\ UNCHANGED <<apiVars, emitterVars, dumpVars, handlerVars>>
    \/ LoadAlias /\ UNCHANGED <<apiVars, emitterVars, dumpVars, handlerVars>>
    \/ LoadSequenceStart /\ UNCHANGED <<apiVars, emitterVars, dumpVars, handlerVars>>
    \/ LoadSequenceEnd /\ UNCHANGED <<apiVars, emitterVars, dumpVars, handlerVars>>
    \/ LoadMappingStart /\ UNCHANGED <<apiVars, emitterVars, dumpVars, handlerVars>>
    \/ LoadMappingEnd /\ UNCHANGED <<apiVars, emitterVars, dumpVars, handlerVars>>
    \/ LoadDocumentEnd /\ UNCHANGED <<apiVars, emitterVars, dumpVars, handlerVars>>
    \/ LoadNodesError /\ UNCHANGED <<apiVars, emitterVars, dumpVars, handlerVars>>

Spec == Init /\ [][Next]_vars

(* ------------------- the event history, read back -------------------- *)

\* What the events of one load call say about the document, told without
\* the composer: the ids of the open collections (outermost first), the
\* number of nodes created, the id and the start mark an anchor name was
\* first given to, the kind of each node and the references placed under
\* it, in event order, and whether an alias named a collection still open.
RefInit ==
    [open |-> <<>>, created |-> 0,
     anchor |-> [a \in AnchorNames |-> 0],
     amark |-> [a \in AnchorNames |-> DefaultMark],
     kind |-> <<>>, kids |-> <<>>, toOpen |-> FALSE]

RefAttach(r, id) ==
    IF r.open = <<>> THEN r
    ELSE [r EXCEPT !.kids[Last(r.open)] = Append(@, id)]

RefCreate(r, e, kind) ==
    LET id == r.created + 1
        attached == RefAttach(r, id)
        named == e.anchor # None /\ r.anchor[e.anchor] = 0
    IN  [attached EXCEPT
            !.created = id,
            !.kind = Append(@, kind),
            !.kids = Append(@, <<>>),
            !.anchor = IF named THEN [@ EXCEPT ![e.anchor] = id] ELSE @,
            !.amark = IF named THEN [@ EXCEPT ![e.anchor] = e.start_mark]
                      ELSE @,
            !.open = IF kind = "Scalar" THEN @ ELSE Append(@, id)]

RefStep(r, e) ==
    CASE e.type = "Scalar" -> RefCreate(r, e, "Scalar")
      [] e.type = "SequenceStart" -> RefCreate(r, e, "Sequence")
      [] e.type = "MappingStart" -> RefCreate(r, e, "Mapping")
      [] e.type = "Alias" ->
            IF r.anchor[e.anchor] = 0 THEN r
            ELSE [RefAttach(r, r.anchor[e.anchor]) EXCEPT
                    !.toOpen = @ \/ \E i \in 1..Len(r.open) :
                                        r.open[i] = r.anchor[e.anchor]]
      [] e.type \in {"SequenceEnd", "MappingEnd"} ->
            [r EXCEPT !.open = Front(@)]
      [] OTHER -> r

RECURSIVE Ref(_)
Ref(evs) == IF evs = <<>> THEN RefInit ELSE RefStep(Ref(Front(evs)), Last(evs))

\* The references a node holds, in the order they were placed.
RECURSIVE Flatten(_)
Flatten(pairs) ==
    IF pairs = <<>> THEN <<>>
    ELSE LET p == Last(pairs)
         IN  Flatten(Front(pairs)) \o
                (IF p.value = 0 THEN <<p.key>> ELSE <<p.key, p.value>>)

ChildRefs(node) ==
    IF node.kind = "Mapping" THEN Flatten(node.pairs) ELSE node.items

\* (key, value) pairs of the references refs, taken two by two; a last one
\* left alone is a key whose value is the placeholder 0.
Pairing(refs) ==
    [i \in 1..((Len(refs) + 1) \div 2) |->
        NodePair(refs[2 * i - 1],
                 IF 2 * i <= Len(refs) THEN refs[2 * i] ELSE 0)]

\* The document a load call shows: the one it returned, or the one in
\* the making.
Loaded == IF result.tag = "Ok" THEN result.nodes ELSE nodes

\* The events of the load call that carry (type, anchor), after the
\* document start.
Shape(evs) ==
    LET body == SelectSeq(evs, LAMBDA e :
                    e.type \notin {"StreamStart", "DocumentStart"})
    IN  [i \in 1..Len(body) |-> <<body[i].type, body[i].anchor>>]

CreatingEvents(evs) ==
    SelectSeq(evs, LAMBDA e :
        e.type \in {"Scalar", "SequenceStart", "MappingStart"})

\* Node i reaches node j along one or more references.
Reaches(ns, i, j) ==
    LET Succ(S) == S \cup UNION {{ChildRefs(ns[k])[x] :
                                    x \in 1..Len(ChildRefs(ns[k]))} : k \in S}
        RECURSIVE Closure(_, _)
        Closure(S, n) == IF n = 0 THEN S ELSE Closure(Succ(S), n - 1)
        first == {ChildRefs(ns[i])[x] : x \in 1..Len(ChildRefs(ns[i]))}
    IN  j \in Closure(first \ {0}, Len(ns))

Acyclic(ns) == \A i \in 1..Len(ns) : ~Reaches(ns, i, i)

(* ------------------------------ claims -------------------------------- *)

\* The load call took a document start: its later events went through the
\* loop of load_nodes.
InDocument(evs) == \E k \in 1..Len(evs) : evs[k].type = "DocumentStart"

IsCreating(e) == e.type \in {"Scalar", "SequenceStart", "MappingStart"}

\* How often id is referenced in the document ns.
RECURSIVE Occurrences(_, _)
Occurrences(refs, id) ==
    IF refs = <<>> THEN 0
    ELSE Occurrences(Front(refs), id) + (IF Last(refs) = id THEN 1 ELSE 0)

RECURSIVE AllRefs(_)
AllRefs(ns) ==
    IF ns = <<>> THEN <<>> ELSE AllRefs(Front(ns)) \o ChildRefs(Last(ns))

\* C1: in every Document load returns with Ok, every item id of a Sequence
\* and every key id and value id of a Mapping pair lies in 1..nodes.len()
\* (no pair keeps the placeholder value 0), and if the document has a node,
\* node 1 is its root: the node of the first node event.
C1_LoadedIdsInRange ==
    result.tag = "Ok" =>
        /\ \A i \in 1..Len(result.nodes) :
            /\ \A k \in 1..Len(result.nodes[i].items) :
                    result.nodes[i].items[k] \in 1..Len(result.nodes)
            /\ \A k \in 1..Len(result.nodes[i].pairs) :
                /\ result.nodes[i].pairs[k].key \in 1..Len(result.nodes)
                /\ result.nodes[i].pairs[k].value \in 1..Len(result.nodes)
        /\ result.nodes # <<>> =>
            /\ NodeEvents(events) # <<>>
            /\ result.nodes[1].start_mark = NodeEvents(events)[1].start_mark

\* C1 witness: a loaded document with a mapping that has a pair.
C1_Witness ==
    /\ result.tag = "Ok"
    /\ \E i \in 1..Len(result.nodes) : result.nodes[i].pairs # <<>>

\* C2: a node event whose anchor was given to an earlier node of the same
\* load call makes load fail with the composer error whose context mark is
\* the start mark of the first node and whose problem mark is the start
\* mark of the second; the alias table never holds a name twice.
C2_DuplicateAnchor ==
    /\ \A i, j \in 1..Len(aliases) :
            aliases[i].anchor = aliases[j].anchor => i = j
    /\ ( /\ InDocument(events)
         /\ IsCreating(Last(events))
         /\ Last(events).anchor # None
         /\ Ref(Front(events)).anchor[Last(events).anchor] # 0 )
       => /\ pc = "idle"
          /\ result.tag = "Err"
          /\ result.err =
                ComposerError("found duplicate anchor; first occurrence",
                              Ref(Front(events)).amark[Last(events).anchor],
                              "second occurrence", Last(events).start_mark)

\* C2 witness: load failed on a second occurrence of an anchor.
C2_Witness ==
    /\ result.tag = "Err"
    /\ result.err.problem = "second occurrence"
    /\ result.err.context_mark < result.err.problem_mark
    /\ result.err.context_mark # DefaultMark

\* C3: an Alias event whose anchor is registered places the registered
\* node id under the current parent, as its newest reference, and the call
\* goes on; an Alias event whose anchor is not registered makes load fail
\* with the composer error "found undefined alias" at the start mark of the
\* alias event.
C3_Alias ==
    (InDocument(events) /\ Last(events).type = "Alias") =>
        LET e == Last(events)
            before == Ref(Front(events))
            id == before.anchor[e.anchor]
        IN  IF id # 0
            THEN /\ pc = "nodes"
                 /\ ctx # <<>>
                 /\ ChildRefs(nodes[Last(ctx)]) =
                        Append(before.kids[Last(ctx)], id)
            ELSE /\ pc = "idle"
                 /\ result.tag = "Err"
                 /\ result.err =
                        ComposerError("", DefaultMark,
                                      "found undefined alias", e.start_mark)

\* C3 witness: a loaded document in which one node id is referenced twice,
\* the second time by an alias.
C3_Witness ==
    /\ result.tag = "Ok"
    /\ \E k \in 1..Len(events) : events[k].type = "Alias"
    /\ \E id \in 1..Len(result.nodes) :
            Occurrences(AllRefs(result.nodes), id) >= 2

\* C4, as claimed: after a successful load, nodes.len() equals the number
\* of node events (Scalar, SequenceStart, MappingStart and Alias) consumed.
C4_NodePerNodeEvent ==
    result.tag = "Ok" => Len(result.nodes) = Len(NodeEvents(events))

\* C4, amended: every Scalar, SequenceStart and MappingStart event appends
\* one node and an Alias event appends none; every node event but the root's
\* places one reference under a parent.  nodes.len() equals the number of
\* Scalar, SequenceStart and MappingStart events consumed.
C4_NodePerCreatingEvent ==
    (pc = "nodes" \/ result.tag = "Ok") =>
        /\ Len(Loaded) = Len(CreatingEvents(events))
        /\ Len(AllRefs(Loaded)) =
                (IF NodeEvents(events) = <<>> THEN 0
                 ELSE Len(NodeEvents(events)) - 1)

\* C4 witness: a loaded document one of whose events was an alias.
C4_Witness ==
    /\ result.tag = "Ok"
    /\ Len(result.nodes) = 2
    /\ \E k \in 1..Len(events) : events[k].type = "Alias"

\* C5, as claimed: the node graph of a loaded document has no cycle.
C5_LoadedIsDag == result.tag = "Ok" => Acyclic(result.nodes)

\* C5, amended: the node graph of a loaded document has a cycle exactly
\* when an alias named a collection that was still open at the alias event
\* (its anchor is registered at its start event); without such an alias it
\* is a DAG.
C5_DagUnlessAliasToOpen ==
    result.tag = "Ok" => (Acyclic(result.nodes) <=> ~Ref(events).toOpen)

\* C5 witness: a loaded document with an alias to a completed node.
C5_Witness ==
    /\ result.tag = "Ok"
    /\ \E k \in 1..Len(events) : events[k].type = "Alias"
    /\ ~Ref(events).toOpen
    /\ Acyclic(result.nodes)

\* The events of `&a [1, *a]`, after the document start.
SelfReferenceShape ==
    << <<"SequenceStart", "a">>, <<"Scalar", None>>, <<"Alias", "a">>,
       <<"SequenceEnd", None>>, <<"DocumentEnd", None>> >>

\* C6: the anchor of a collection is registered when its start event is
\* consumed, before its children, so an alias inside it may name it: the
\* events of `&a [1, *a]` load without error into two nodes, node 1 a
\* sequence with the items [2, 1].
C6_AnchorAtCollectionStart ==
    /\ ( /\ pc = "nodes"
         /\ Last(events).type \in {"SequenceStart", "MappingStart"}
         /\ Last(events).anchor # None )
       => /\ \E i \in 1..Len(aliases) :
                aliases[i] = [anchor |-> Last(events).anchor,
                              index |-> Len(nodes),
                              mark |-> Last(events).start_mark]
          /\ ChildRefs(nodes[Len(nodes)]) = <<>>
    /\ ( /\ InDocument(events)
         /\ Len(Shape(events)) >= 3
         /\ Len(Shape(events)) <= Len(SelfReferenceShape)
         /\ Shape(events) =
                SubSeq(SelfReferenceShape, 1, Len(Shape(events))) )
       => /\ pc # "panic"
          /\ result.tag # "Err"
          /\ Len(Loaded) = 2
          /\ Loaded[1].kind = "Sequence"
          /\ Loaded[1].items = <<2, 1>>
          /\ Loaded[2].kind = "Scalar"

\* C6 witness: the events of `&a [1, *a]` were loaded.
C6_Witness ==
    /\ result.tag = "Ok"
    /\ Shape(events) = SelfReferenceShape

\* C7: a node is attached to the innermost open collection: the items of a
\* sequence are the references placed under it in event order, the pairs
\* of a mapping are those references taken two by two as (key, value), a
\* key not yet followed by its value having the value 0; under no open
\* collection nothing is attached.
C7_AttachInEventOrder ==
    (pc = "nodes" \/ result.tag = "Ok") =>
        LET r == Ref(events)
        IN  /\ Len(Loaded) = r.created
            /\ \A i \in 1..Len(Loaded) :
                /\ Loaded[i].kind = r.kind[i]
                /\ Loaded[i].items =
                    (IF r.kind[i] = "Sequence" THEN r.kids[i] ELSE <<>>)
                /\ Loaded[i].pairs =
                    (IF r.kind[i] = "Mapping" THEN Pairing(r.kids[i])
                     ELSE <<>>)

\* C7 witness: a loaded mapping with a pair, the key created before the
\* value.
C7_Witness ==
    /\ result.tag = "Ok"
    /\ \E i \in 1..Len(result.nodes) :
        /\ result.nodes[i].kind = "Mapping"
        /\ Len(result.nodes[i].pairs) = 1
        /\ result.nodes[i].pairs[1].key < result.nodes[i].pairs[1].value

\* C8: when load has returned, with Ok or with Err, the alias table is
\* empty; during a call it holds only anchors of node events of that call,
\* so an alias resolves only to an anchor of its own document and a
\* duplicate-anchor error names two events of the same call.
C8_AliasesPerLoad ==
    /\ pc = "idle" => aliases = <<>>
    /\ \A i \in 1..Len(aliases) :
        \E k \in 1..Len(events) :
            /\ IsCreating(events[k])
            /\ events[k].anchor = aliases[i].anchor
            /\ events[k].start_mark = aliases[i].mark
    /\ (InDocument(events) /\ Last(events).type = "Alias" /\ pc = "nodes")
       => \E k \in 1..(Len(events) - 1) :
            IsCreating(events[k]) /\ events[k].anchor = Last(events).anchor
    /\ (result.tag = "Err" /\ result.err.problem = "second occurrence")
       => \E k \in 1..(Len(events) - 1) :
            /\ IsCreating(events[k])
            /\ events[k].anchor = Last(events).anchor
            /\ events[k].start_mark = result.err.context_mark

\* C8 witness: a document loaded with an anchor that an earlier document of
\* the same parser had used.
C8_Witness ==
    /\ result.tag = "Ok"
    /\ \E k \in 1..Len(events) :
        IsCreating(events[k]) /\ events[k].anchor \in prevAnchors

\* C9: a load call whose first event after the stream start is the stream
\* end returns an empty document; once the stream end was produced, a load
\* call that returned has either just consumed it or has called parse() not
\* at all, and returned an empty document; the stream start is consumed by
\* the first load call only, as its first event.
C9_EmptyDocumentAtStreamEnd ==
    /\ (pc = "idle" /\ events # <<>> /\ Last(events).type = "StreamEnd")
       => result = Ok(<<>>) /\ stream_end_produced
    /\ (pc = "idle" /\ stream_end_produced)
       => /\ result = Ok(<<>>)
          /\ events = <<>> \/ Last(events).type = "StreamEnd"
    /\ pc = "nodes" => ~stream_end_produced
    /\ \A k \in 1..Len(events) :
        events[k].type = "StreamStart" => k = 1 /\ loads = 1

\* C9 witness: the third load call on a parser at the end of its stream
\* returned an empty document without a parse() call.
C9_Witness ==
    /\ pc = "idle"
    /\ stream_end_produced
    /\ loads >= 3
    /\ events = <<>>
    /\ result = Ok(<<>>)

MaxDocNodes == 2
\* Most references (items, keys and values) the caller appends to it.
MaxRefs == 2

\* Option::unwrap_or.
UnwrapOr(opt, default) == IF opt = None THEN default ELSE opt

\* What a call that changes the document leaves behind: the nodes, the id
\* it returned (0 for none) and the message of its panic ("" for none).
Called(ns, id, panic) == [nodes |-> ns, id |-> id, panic |-> panic]

\* Mutant of add_scalar: a scalar without a tag gets the sequence default.
add_scalar_SequenceTag(ns, tag, value) ==
    Called(Append(ns, ScalarNode(UnwrapOr(tag, DEFAULT_SEQUENCE_TAG), value,
                                 DefaultMark, DefaultMark)),
           Len(ns) + 1, "")

add_scalar(ns, tag, value) ==
    Called(Append(ns, ScalarNode(UnwrapOr(tag, DEFAULT_SCALAR_TAG), value,
                                 DefaultMark, DefaultMark)),
           Len(ns) + 1, "")

\* Mutant of add_sequence: the id returned counts from 0.
add_sequence_ZeroBased(ns, tag) ==
    Called(Append(ns, SequenceNode(UnwrapOr(tag, DEFAULT_SEQUENCE_TAG),
                                   DefaultMark, DefaultMark)),
           Len(ns), "")

add_sequence(ns, tag) ==
    Called(Append(ns, SequenceNode(UnwrapOr(tag, DEFAULT_SEQUENCE_TAG),
                                   DefaultMark, DefaultMark)),
           Len(ns) + 1, "")

add_mapping(ns, tag) ==
    Called(Append(ns, MappingNode(UnwrapOr(tag, DEFAULT_MAPPING_TAG),
                                  DefaultMark, DefaultMark)),
           Len(ns) + 1, "")

\* The caller may call a function of the document API: no dump holds the
\* document and the program has not panicked.
CanCall == dpc = "idle" /\ panicked = ""

\* A call of add_scalar, add_sequence or add_mapping that left r behind.
Added(op, tag, r) ==
    /\ doc' = r.nodes
    /\ ret' = [Returned(op, r.id, FALSE, NoNode) EXCEPT !.tag = tag]
    /\ UNCHANGED <<loadVars, emitterVars, dumpVars, handlerVars>>

AddScalarOf(tags) ==
    /\ CanCall
    /\ Len(doc) < MaxDocNodes
    /\ \E tag \in tags, value \in Values :
            Added("add_scalar", tag, add_scalar(doc, tag, value))

AddSequenceOf(tags) ==
    /\ CanCall
    /\ Len(doc) < MaxDocNodes
    /\ \E tag \in tags : Added("add_sequence", tag, add_sequence(doc, tag))

AddMappingOf(tags) ==
    /\ CanCall
    /\ Len(doc) < MaxDocNodes
    /\ \E tag \in tags : Added("add_mapping", tag, add_mapping(doc, tag))

(* --------------------- loading and adding, with tags ------------------- *)

\* The node events of a load call that carry any tag and no anchor.
LoadScalarTagged ==
    \E tag \in OptTags, value \in Values :
        LoadNodes(Event("Scalar", None, tag, value, mark + 1))

LoadSequenceStartTagged ==
    \E tag \in OptTags :
        LoadNodes(Event("SequenceStart", None, tag, "", mark + 1))

LoadMappingStartTagged ==
    \E tag \in OptTags :
        LoadNodes(Event("MappingStart", None, tag, "", mark + 1))

\* The program loads documents, or it builds one: the two do not meet.
Loads == doc = <<>>
Builds == loads = 0 /\ pc = "idle" /\ mark = 0 /\ state = "StreamStart"

NextTags ==
    \/ LoadStreamStartError /\ Loads
            /\ UNCHANGED <<apiVars, emitterVars, dumpVars, handlerVars>>
    \/ LoadAfterStreamEnd /\ Loads
            /\ UNCHANGED <<apiVars, emitterVars, dumpVars, handlerVars>>
    \/ LoadStreamEnd /\ Loads
            /\ UNCHANGED <<apiVars, emitterVars, dumpVars, handlerVars>>
    \/ LoadParseError /\ Loads
            /\ UNCHANGED <<apiVars, emitterVars, dumpVars, handlerVars>>
    \/ LoadDocumentStart /\ Loads
            /\ UNCHANGED <<apiVars, emitterVars, dumpVars, handlerVars>>
    \/ LoadScalarTagged /\ Loads
            /\ UNCHANGED <<apiVars, emitterVars, dumpVars, handlerVars>>
    \/ LoadSequenceStartTagged /\ Loads
            /\ UNCHANGED <<apiVars, emitterVars, dumpVars, handlerVars>>
    \/ LoadSequenceEnd /\ Loads
            /\ UNCHANGED <<apiVars, emitterVars, dumpVars, handlerVars>>
    \/ LoadMappingStartTagged /\ Loads
            /\ UNCHANGED <<apiVars, emitterVars, dumpVars, handlerVars>>
    \/ LoadMappingEnd /\ Loads
            /\ UNCHANGED <<apiVars, emitterVars, dumpVars, handlerVars>>
    \/ LoadDocumentEnd /\ Loads
            /\ UNCHANGED <<apiVars, emitterVars, dumpVars, handlerVars>>
    \/ LoadNodesError /\ Loads
            /\ UNCHANGED <<apiVars, emitterVars, dumpVars, handlerVars>>
    \/ AddScalarOf(OptTags) /\ Builds
    \/ AddSequenceOf(OptTags) /\ Builds
    \/ AddMappingOf(OptTags) /\ Builds

SpecTags == Init /\ [][NextTags]_vars

\* The default tag of a node of the given kind.
DefaultTag(kind) ==
    CASE kind = "Scalar" -> DEFAULT_SCALAR_TAG
      [] kind = "Sequence" -> DEFAULT_SEQUENCE_TAG
      [] kind = "Mapping" -> DEFAULT_MAPPING_TAG

\* The kind of the node a creating event makes.
KindOf(type) ==
    CASE type = "Scalar" -> "Scalar"
      [] type = "SequenceStart" -> "Sequence"
      [] type = "MappingStart" -> "Mapping"

\* C11: the node load makes of a Scalar, SequenceStart or MappingStart event
\* whose tag is absent or "!" carries the default tag of its kind, and the
\* node of an event with any other tag carries that tag, so no node of a
\* loaded document has an absent tag or the tag "!"; a node added by
\* add_scalar, add_sequence or add_mapping without a tag carries the default
\* tag of its kind, and one added with a tag carries that tag.
C11_DefaultTags ==
    /\ \A i \in 1..Len(Loaded) :
        /\ Loaded[i].tag \notin {None, "!"}
        /\ i <= Len(CreatingEvents(events)) =>
            LET e == CreatingEvents(events)[i]
            IN  /\ Loaded[i].kind = KindOf(e.type)
                /\ Loaded[i].tag = IF e.tag \in {None, "!"}
                                   THEN DefaultTag(Loaded[i].kind)
                                   ELSE e.tag
    /\ ret.op \in {"add_scalar", "add_sequence", "add_mapping"} =>
        /\ ret.id = Len(doc)
        /\ doc[ret.id].tag = IF ret.tag = None
                             THEN DefaultTag(doc[ret.id].kind)
                             ELSE ret.tag

\* C11 witness: a loaded document holds a node whose event carried "!" and
\* one whose event carried no tag and one whose event carried another tag.
C11_Witness ==
    /\ result.tag = "Ok"
    /\ \E i, j, k \in 1..Len(CreatingEvents(events)) :
        /\ CreatingEvents(events)[i].tag = "!"
        /\ CreatingEvents(events)[j].tag = None
        /\ CreatingEvents(events)[k].tag = "!t"
        /\ Len(result.nodes) = Len(CreatingEvents(events))

(* ------------------------------ emitter -------------------------------- *)

\* Anchors::default(): the emitter's record of one node.
DefaultAnchors == [references |-> 0, anchor |-> 0, serialized |-> FALSE]

\* The event dump hands to emit(): it carries the default marks.
DumpEvent(type, anchor, tag, value) ==
    [Event(type, anchor, tag, value, 0) EXCEPT
        !.start_mark = DefaultMark, !.end_mark = DefaultMark]

\* Emitter::generate_anchor: the name id<N> of anchor id N.
generate_anchor(anchor_id) == "id" \o ToString(anchor_id)

\* The state of the emitter that dump reads and writes.
Emitter(an, last, op, cl, em) ==
    [anchors |-> an, last_anchor_id |-> last, opened |-> op, closed |-> cl,
     emitted |-> em]

\* emit() takes the event unless the stream was ended; the writer behind it
\* may fail on any event.
EmitAccepts(e) == ~e.closed

emit(e, event) == [e EXCEPT !.emitted = Append(@, event)]

\* Emitter::open: emits the stream start and marks the emitter opened.
open(e) ==
    [emit(e, DumpEvent("StreamStart", None, None, "")) EXCEPT !.opened = TRUE]

\* Emitter::close: emits the stream end, once.
close(e) ==
    IF e.closed THEN e
    ELSE [emit(e, DumpEvent("StreamEnd", None, None, "")) EXCEPT
            !.closed = TRUE]

\* Emitter::reset_anchors.
reset_anchors(e) == [e EXCEPT !.anchors = <<>>, !.last_anchor_id = 0]

\* Emitter::anchor_node_sub: it is given the emitter and one id, so it
\* counts one reference to the node; the second reference gives the node
\* the next anchor id.
anchor_node_sub(e, index) ==
    LET counted == [e EXCEPT !.anchors[index].references = @ + 1]
    IN  IF counted.anchors[index].references = 2
        THEN [counted EXCEPT !.last_anchor_id = @ + 1,
                             !.anchors[index].anchor = e.last_anchor_id + 1]
        ELSE counted

(* ---------------------------- Document::dump --------------------------- *)

\* Most dump calls on one emitter.
MaxDumps == 3

\* anchor_node_sub on each of refs, in order.
RECURSIVE AnchorSubs(_, _)
AnchorSubs(e, refs) ==
    IF refs = <<>> THEN e
    ELSE AnchorSubs(anchor_node_sub(e, Head(refs)), Tail(refs))

\* Document::anchor_node.
anchor_node(ns, e, index) ==
    LET counted == [e EXCEPT !.anchors[index].references = @ + 1]
    IN  IF counted.anchors[index].references = 1
        THEN AnchorSubs(counted, ChildRefs(ns[index]))
        ELSE IF counted.anchors[index].references = 2
        THEN [counted EXCEPT !.last_anchor_id = @ + 1,
                             !.anchors[index].anchor = e.last_anchor_id + 1]
        ELSE counted

\* What is left to do of a dump: a call of dump_node, or the end event of
\* a collection whose children were dumped.
Visit(index) == [op |-> "dump_node", index |-> index]
End(type) == [op |-> type, index |-> 0]

\* What a call of dump_node does up to its first emit(): the document's
\* nodes and the emitter's anchors after it, the event it emits, the work
\* its collection leaves behind, and the message of its panic.
Visited(ns, an, event, todo, panic) ==
    [nodes |-> ns, anchors |-> an, event |-> event, todo |-> todo,
     panic |-> panic]

\* Mutant of dump_scalar: quoted_implicit is never set.
dump_scalar_QuotedNever(node, anchor) ==
    DumpEvent("Scalar", anchor, node.tag, node.value)
        @@ [plain_implicit |-> node.tag = DEFAULT_SCALAR_TAG,
            quoted_implicit |-> FALSE]

\* Document::dump_scalar: the event it hands to emit().
dump_scalar(node, anchor) ==
    DumpEvent("Scalar", anchor, node.tag, node.value)
        @@ [plain_implicit |-> node.tag = DEFAULT_SCALAR_TAG,
            quoted_implicit |-> node.tag = DEFAULT_SCALAR_TAG]

\* Document::dump_sequence: the event of its first emit().
dump_sequence_start(node, anchor) ==
    DumpEvent("SequenceStart", anchor, node.tag, "")
        @@ [implicit |-> node.tag = DEFAULT_SEQUENCE_TAG]

\* Document::dump_mapping: the event of its first emit().
dump_mapping_start(node, anchor) ==
    DumpEvent("MappingStart", anchor, node.tag, "")
        @@ [implicit |-> node.tag = DEFAULT_MAPPING_TAG]

\* Mutant of dump_node: the node is neither marked serialized nor taken.
dump_node_Revisits(ns, an, index) ==
    LET node == ns[index]
        anchor == IF an[index].anchor # 0
                  THEN generate_anchor(an[index].anchor) ELSE None
    IN  IF node.kind = "Scalar"
        THEN Visited(ns, an, dump_scalar(node, anchor),
                     <<>>, "")
        ELSE IF node.kind = "Sequence"
        THEN Visited(ns, an, dump_sequence_start(node, anchor),
                     [i \in 1..Len(node.items) |-> Visit(node.items[i])]
                        \o <<End("SequenceEnd")>>, "")
        ELSE Visited(ns, an, dump_mapping_start(node, anchor),
                     [i \in 1..Len(ChildRefs(node)) |->
                            Visit(ChildRefs(node)[i])]
                        \o <<End("MappingEnd")>>, "")

\* Mutant of dump_node: dump_mapping dumps the value of a pair before its
\* key.
dump_node_ValueFirst(ns, an, index) ==
    LET anchor == IF an[index].anchor # 0
                  THEN generate_anchor(an[index].anchor) ELSE None
        marked == [an EXCEPT ![index].serialized = TRUE]
        node == ns[index]
        taken == [ns EXCEPT ![index] = NoNode]
        refs == ChildRefs(node)
    IN  IF an[index].serialized
        THEN IF anchor = None
             THEN Visited(ns, an, DumpEvent("Alias", None, None, ""), <<>>,
                          "called Option::unwrap() on a None value")
             ELSE Visited(ns, an, DumpEvent("Alias", anchor, None, ""),
                          <<>>, "")
        ELSE IF node.kind = "Scalar"
        THEN Visited(taken, marked,
                     dump_scalar(node, anchor),
                     <<>>, "")
        ELSE IF node.kind = "Sequence"
        THEN Visited(taken, marked,
                     dump_sequence_start(node, anchor),
                     [i \in 1..Len(node.items) |-> Visit(node.items[i])]
                        \o <<End("SequenceEnd")>>, "")
        ELSE Visited(taken, marked,
                     dump_mapping_start(node, anchor),
                     [i \in 1..Len(refs) |->
                        Visit(refs[IF i % 2 = 1 THEN i + 1 ELSE i - 1])]
                        \o <<End("MappingEnd")>>, "")

\* Document::dump_node with dump_alias, dump_scalar, and the first emit()
\* of dump_sequence and dump_mapping.
dump_node(ns, an, index) ==
    LET anchor == IF an[index].anchor # 0
                  THEN generate_anchor(an[index].anchor) ELSE None
        marked == [an EXCEPT ![index].serialized = TRUE]
        node == ns[index]
        taken == [ns EXCEPT ![index] = NoNode]
    IN  IF an[index].serialized
        THEN IF anchor = None
             THEN Visited(ns, an, DumpEvent("Alias", None, None, ""), <<>>,
                          "called Option::unwrap() on a None value")
             ELSE Visited(ns, an, DumpEvent("Alias", anchor, None, ""),
                          <<>>, "")
        ELSE IF node.kind = "Scalar"
        THEN Visited(taken, marked,
                     dump_scalar(node, anchor),
                     <<>>, "")
        ELSE IF node.kind = "Sequence"
        THEN Visited(taken, marked,
                     dump_sequence_start(node, anchor),
                     [i \in 1..Len(node.items) |-> Visit(node.items[i])]
                        \o <<End("SequenceEnd")>>, "")
        ELSE IF node.kind = "Mapping"
        THEN Visited(taken, marked,
                     dump_mapping_start(node, anchor),
                     [i \in 1..Len(ChildRefs(node)) |->
                            Visit(ChildRefs(node)[i])]
                        \o <<End("MappingEnd")>>, "")
        ELSE Visited(taken, marked, DumpEvent("Error", None, None, ""), <<>>,
                "document node is neither a scalar, sequence, or a mapping")

\* The emitter as the variables hold it, and the variables as an emitter.
TheEmitter == Emitter(anchors, last_anchor_id, opened, closed, emitted)

SetEmitter(e) ==
    /\ anchors' = e.anchors
    /\ last_anchor_id' = e.last_anchor_id
    /\ opened' = e.opened
    /\ closed' = e.closed
    /\ emitted' = e.emitted

\* The caller may call dump: no call is running, the program has not
\* panicked, and the emitter was not discarded after an error.
CanDump == dpc = "idle" /\ panicked = "" /\ dresult # "Err" /\ dumps < MaxDumps

\* Mutant of Opened: every dump opens the emitter.
Opened_Always(e) == open(e)

\* The emitter after the first step of dump: opened if it was not.
Opened(e) == IF ~e.opened THEN open(e) ELSE e

\* dump returns r, leaving the emitter as e; its locals are gone.
DumpReturn(r, e) ==
    /\ dpc' = "idle"
    /\ dresult' = r
    /\ dnodes' = <<>>
    /\ stack' = <<>>
    /\ SetEmitter(e)

\* dump: the emitter is not opened and open() fails.
DumpOpenError(ns) ==
    /\ CanDump
    /\ ~opened
    /\ dumps' = dumps + 1
    /\ visits' = <<>>
    /\ DumpReturn("Err", reset_anchors(TheEmitter))

\* Mutant of DumpEmpty: the stream is left open.
DumpEmpty_NoClose(ns) ==
    /\ CanDump
    /\ ns = <<>>
    /\ dumps' = dumps + 1
    /\ visits' = <<>>
    /\ DumpReturn("Ok", reset_anchors(Opened(TheEmitter)))

\* dump of a document without nodes: the emitter is closed.
DumpEmpty(ns) ==
    /\ CanDump
    /\ ns = <<>>
    /\ dumps' = dumps + 1
    /\ visits' = <<>>
    /\ DumpReturn("Ok", reset_anchors(close(Opened(TheEmitter))))

\* dump of a document without nodes: close() fails.
DumpEmptyCloseError(ns) ==
    /\ CanDump
    /\ ns = <<>>
    /\ ~Opened(TheEmitter).closed
    /\ dumps' = dumps + 1
    /\ visits' = <<>>
    /\ DumpReturn("Err", Opened(TheEmitter))

\* The emitter at the document start of a dump of ns: opened, with one
\* record per node.
AtDocumentStart(ns) ==
    [Opened(TheEmitter) EXCEPT !.anchors = [i \in 1..Len(ns) |-> DefaultAnchors]]

\* dump of a document with nodes, up to the first call of dump_node: the
\* document start is emitted and anchor_node counts the references.
DumpDocumentStart(ns) ==
    /\ CanDump
    /\ ns # <<>>
    /\ EmitAccepts(AtDocumentStart(ns))
    /\ dumps' = dumps + 1
    /\ visits' = <<>>
    /\ dpc' = "nodes"
    /\ dnodes' = ns
    /\ stack' = <<Visit(1)>>
    /\ SetEmitter(anchor_node(ns,
            emit(AtDocumentStart(ns), DumpEvent("DocumentStart", None, None, "")),
            1))
    /\ UNCHANGED dresult

\* dump of a document with nodes: emit() fails on the document start.
DumpDocumentStartError(ns) ==
    /\ CanDump
    /\ ns # <<>>
    /\ dumps' = dumps + 1
    /\ visits' = <<>>
    /\ DumpReturn("Err", AtDocumentStart(ns))

\* The next call of dump_node and what it does.
NextVisit == dump_node(dnodes, anchors, Head(stack).index)

\* One call of dump_node whose event the emitter takes.
DumpNode(types) ==
    /\ dpc = "nodes"
    /\ stack # <<>>
    /\ Head(stack).op = "dump_node"
    /\ NextVisit.panic = ""
    /\ NextVisit.event.type \in types
    /\ dnodes' = NextVisit.nodes
    /\ anchors' = NextVisit.anchors
    /\ emitted' = Append(emitted, NextVisit.event)
    /\ stack' = NextVisit.todo \o Tail(stack)
    /\ visits' = Append(visits, Head(stack).index)
    /\ UNCHANGED <<last_anchor_id, opened, closed, dpc, dresult, dumps,
                   loadVars, apiVars, handlerVars>>

DumpScalar == DumpNode({"Scalar"})
DumpSequenceStart == DumpNode({"SequenceStart"})
DumpMappingStart == DumpNode({"MappingStart"})
DumpAlias == DumpNode({"Alias"})

\* A call of dump_node panics.
DumpNodePanic ==
    /\ dpc = "nodes"
    /\ stack # <<>>
    /\ Head(stack).op = "dump_node"
    /\ NextVisit.panic # ""
    /\ dpc' = "panic"
    /\ panicked' = NextVisit.panic
    /\ visits' = Append(visits, Head(stack).index)
    /\ UNCHANGED <<dnodes, stack, dresult, dumps, emitterVars, state, states,
                   mark, stream_start_produced, stream_end_produced, aliases,
                   pc, nodes, ctx, result, events, loads, prevAnchors,
                   apiVars, handlerVars>>

\* The end event of a collection whose children were dumped.
DumpCollectionEnd(type) ==
    /\ dpc = "nodes"
    /\ stack # <<>>
    /\ Head(stack).op = type
    /\ emitted' = Append(emitted, DumpEvent(type, None, None, ""))
    /\ stack' = Tail(stack)
    /\ UNCHANGED <<dnodes, dpc, dresult, dumps, visits, anchors,
                   last_anchor_id, opened, closed, loadVars, apiVars,
                   handlerVars>>

DumpSequenceEnd == DumpCollectionEnd("SequenceEnd")
DumpMappingEnd == DumpCollectionEnd("MappingEnd")

\* The root was dumped: the document end is emitted, the anchors are
\* reset and dump returns Ok.
DumpDocumentEnd ==
    /\ dpc = "nodes"
    /\ stack = <<>>
    /\ DumpReturn("Ok",
            reset_anchors(emit(TheEmitter,
                               DumpEvent("DocumentEnd", None, None, ""))))
    /\ UNCHANGED <<dumps, visits, loadVars, apiVars, handlerVars>>

\* emit() fails on an event of dump_node or on the document end: dump
\* returns the error at once.
DumpEmitError ==
    /\ dpc = "nodes"
    /\ stack # <<>> /\ Head(stack).op = "dump_node" => NextVisit.panic = ""
    /\ DumpReturn("Err",
            IF stack # <<>> /\ Head(stack).op = "dump_node"
            THEN [TheEmitter EXCEPT !.anchors = NextVisit.anchors]
            ELSE TheEmitter)
    /\ visits' = IF stack # <<>> /\ Head(stack).op = "dump_node"
                 THEN Append(visits, Head(stack).index) ELSE visits
    /\ UNCHANGED <<dumps, loadVars, apiVars, handlerVars>>

(* ---------------------- appending to a collection ---------------------- *)

\* Mutant of append_sequence_item: the item goes to the front.
append_sequence_item_Front(ns, sequence, item) ==
    IF ~(sequence > 0 /\ sequence - 1 < Len(ns))
    THEN Called(ns, 0, "assertion failed: sequence")
    ELSE IF ns[sequence].kind # "Sequence"
    THEN Called(ns, 0, "assertion failed: not a sequence")
    ELSE IF ~(item > 0 /\ item - 1 < Len(ns))
    THEN Called(ns, 0, "assertion failed: item")
    ELSE Called([ns EXCEPT ![sequence].items = <<item>> \o @], 0, "")

\* Document::append_sequence_item and yaml_document_append_sequence_item.
append_sequence_item(ns, sequence, item) ==
    IF ~(sequence > 0 /\ sequence - 1 < Len(ns))
    THEN Called(ns, 0, "assertion failed: sequence")
    ELSE IF ns[sequence].kind # "Sequence"
    THEN Called(ns, 0, "assertion failed: not a sequence")
    ELSE IF ~(item > 0 /\ item - 1 < Len(ns))
    THEN Called(ns, 0, "assertion failed: item")
    ELSE Called([ns EXCEPT ![sequence].items = Append(@, item)], 0, "")

\* Document::yaml_document_append_mapping_pair and
\* yaml_document_append_mapping_pair.
append_mapping_pair(ns, mapping, key, value) ==
    IF ~(mapping > 0 /\ mapping - 1 < Len(ns))
    THEN Called(ns, 0, "assertion failed: mapping")
    ELSE IF ns[mapping].kind # "Mapping"
    THEN Called(ns, 0, "assertion failed: not a mapping")
    ELSE IF ~(key > 0 /\ key - 1 < Len(ns))
    THEN Called(ns, 0, "assertion failed: key")
    ELSE IF ~(value > 0 /\ value - 1 < Len(ns))
    THEN Called(ns, 0, "assertion failed: value")
    ELSE Called([ns EXCEPT ![mapping].pairs = Append(@, NodePair(key, value))],
                0, "")

\* The ids a caller passes: those of the document's nodes, and -1, 0 and
\* the first id behind them, which denote no node.
Ids(ns) == (-1)..(Len(ns) + 1)

\* A call of an append function that left r behind: the failed assertion
\* ends the program.
Appended(op, args, r) ==
    /\ doc' = r.nodes
    /\ panicked' = r.panic
    /\ ret' = IF r.panic = ""
              THEN [Returned(op, 0, FALSE, NoNode) EXCEPT !.args = args]
              ELSE Returned(op, 0, FALSE, NoNode)
    /\ UNCHANGED <<state, states, mark, stream_start_produced,
                   stream_end_produced, aliases, pc, nodes, ctx, result,
                   events, loads, prevAnchors, emitterVars, dumpVars,
                   handlerVars>>

\* The ids worth passing behind one that fails its assertion: once an
\* assertion failed the later arguments are not looked at.
IdsAfter(ns, ok) == IF ok THEN Ids(ns) ELSE {0}

AppendSequenceItem ==
    /\ CanCall
    /\ \E sequence \in Ids(doc) :
        \E item \in IdsAfter(doc, /\ sequence \in 1..Len(doc)
                                 /\ doc[sequence].kind = "Sequence") :
            LET r == append_sequence_item(doc, sequence, item)
            IN  /\ r.panic = "" => Len(AllRefs(doc)) + 1 <= MaxRefs
                /\ Appended("append_sequence_item", <<sequence, item>>, r)

AppendMappingPair ==
    /\ CanCall
    /\ \E mapping \in Ids(doc) :
        \E key \in IdsAfter(doc, /\ mapping \in 1..Len(doc)
                                /\ doc[mapping].kind = "Mapping") :
            \E value \in IdsAfter(doc, key \in 1..Len(doc)) :
                LET r == append_mapping_pair(doc, mapping, key, value)
                IN  /\ r.panic = "" => Len(AllRefs(doc)) + 2 <= MaxRefs
                    /\ Appended("append_mapping_pair",
                                <<mapping, key, value>>, r)

\* Document::get_root_node and yaml_document_get_root_node.
get_root_node(ns) ==
    IF Len(ns) > 0 THEN Returned("get_root_node", 0, TRUE, ns[1])
    ELSE Returned("get_root_node", 0, FALSE, NoNode)

GetRootNode ==
    /\ CanCall
    /\ ret' = get_root_node(doc)
    /\ UNCHANGED <<doc, loadVars, emitterVars, dumpVars, handlerVars>>

(* ------------- a document built by the caller and dumped --------------- *)

\* dump takes the document by value: the caller is left without it.
Moved ==
    /\ dumps = 0
    /\ doc' = <<>>
    /\ ret' = NoCall
    /\ UNCHANGED <<loadVars, handlerVars>>

NextDoc ==
    \/ AddScalarOf({None}) /\ dumps = 0
    \/ AddSequenceOf({None}) /\ dumps = 0
    \/ AddMappingOf({None}) /\ dumps = 0
    \/ AppendSequenceItem /\ dumps = 0
    \/ AppendMappingPair /\ dumps = 0
    \/ GetRootNode /\ dumps = 0
    \/ DumpOpenError(doc) /\ Moved
    \/ DumpEmpty(doc) /\ Moved
    \/ DumpEmptyCloseError(doc) /\ Moved
    \/ DumpDocumentStart(doc) /\ Moved
    \/ DumpDocumentStartError(doc) /\ Moved
    \/ DumpScalar
    \/ DumpSequenceStart
    \/ DumpMappingStart
    \/ DumpAlias
    \/ DumpNodePanic
    \/ DumpSequenceEnd
    \/ DumpMappingEnd
    \/ DumpDocumentEnd
    \/ DumpEmitError

SpecDoc == Init /\ [][NextDoc]_vars

\* The nodes of ns the root reaches, the root among them.
Reachable(ns) == {1} \cup {j \in 1..Len(ns) : Reaches(ns, 1, j)}

\* How often id is referenced by the first n nodes of ns that the root
\* reaches.
RECURSIVE ReferencesUpTo(_, _, _)
ReferencesUpTo(ns, id, n) ==
    IF n = 0 THEN 0
    ELSE ReferencesUpTo(ns, id, n - 1)
            + (IF n \in Reachable(ns)
               THEN Occurrences(ChildRefs(ns[n]), id) ELSE 0)

\* How often id is referenced in the graph the root of ns reaches: the
\* document refers to its root once.
References(ns, id) ==
    (IF id = 1 THEN 1 ELSE 0) + ReferencesUpTo(ns, id, Len(ns))

\* The anchor pass of a dump is over and no node was dumped yet.
AfterAnchorPass == dpc = "nodes" /\ visits = <<>>

\* The nodes the anchor pass gave an anchor.
Anchored == {id \in 1..Len(anchors) : anchors[id].anchor # 0}

\* C12: after the anchor pass of a dump, a node the root reaches has an
\* anchor exactly if it is referenced twice or more in the graph the root
\* reaches, at whatever depth; the anchor ids given are 1, 2, .. up to
\* last_anchor_id, each to one node, and the name of id N is "id" followed
\* by N.
C12_AnchorsForShared ==
    AfterAnchorPass =>
        /\ \A id \in Reachable(dnodes) :
                id \in Anchored <=> References(dnodes, id) >= 2
        /\ \A id \in 1..Len(dnodes) :
                id \notin Reachable(dnodes) => id \notin Anchored
        /\ {anchors[id].anchor : id \in Anchored} = 1..last_anchor_id
        /\ \A i, j \in Anchored :
                anchors[i].anchor = anchors[j].anchor => i = j
        /\ \A id \in Anchored :
                generate_anchor(anchors[id].anchor)
                    = "id" \o ToString(anchors[id].anchor)

\* C12 witness: the anchor pass of a dump ran over a document one of whose
\* nodes is referenced twice.
C12_Witness ==
    /\ AfterAnchorPass
    /\ \E id \in Reachable(dnodes) : References(dnodes, id) >= 2

\* The name of the anchor the emitter holds for node id, None for none.
AnchorOf(id) ==
    IF anchors[id].anchor # 0 THEN generate_anchor(anchors[id].anchor)
    ELSE None

\* C13: while a dump emits the nodes, the k-th call of dump_node emitted the
\* k-th node event; the first call for a node emitted the node's own event
\* with the node's anchor, if it has one, and every later call for it
\* emitted an Alias with that anchor, so no node's own event is emitted
\* twice; a node called for again has an anchor: the unwrap does not panic.
C13_AliasAfterFirstVisit ==
    dpc \in {"nodes", "panic"} /\ visits # <<>> =>
        /\ panicked = ""
        /\ Len(NodeEvents(emitted)) = Len(visits)
        /\ \A k \in 1..Len(visits) :
            LET id == visits[k]
                e == NodeEvents(emitted)[k]
            IN  IF \A j \in 1..(k - 1) : visits[j] # id
                THEN e.type # "Alias" /\ e.anchor = AnchorOf(id)
                ELSE /\ e.type = "Alias"
                     /\ anchors[id].anchor # 0
                     /\ e.anchor = AnchorOf(id)

\* C13 witness: dump_node was called a second time for a node.
C13_Witness ==
    /\ dpc \in {"nodes", "panic"}
    /\ \E j, k \in 1..Len(visits) : j < k /\ visits[j] = visits[k]

\* What is left of a dump: the work on the stack, and for every node not
\* yet serialized its own event, its end and one visit per reference.
RECURSIVE Unserialized(_)
Unserialized(n) ==
    IF n = 0 THEN 0
    ELSE Unserialized(n - 1)
            + (IF anchors[n].serialized THEN 0
               ELSE Len(ChildRefs(dnodes[n])) + 2)

Measure == Len(stack) + Unserialized(Len(dnodes))

\* C14: dump terminates on every document whose references are ids of its
\* nodes, cyclic ones included: the anchor pass is one walk of the root's
\* references, and every step of the emitting pass, be it a call of
\* dump_node or the end of a collection, makes the natural number Measure
\* smaller.
C14_DumpTerminates ==
    [][dpc = "nodes" /\ dpc' = "nodes" => Measure' < Measure /\ Measure' >= 0]_vars

\* C14 witness: the emitting pass came to its end on a document whose root
\* is referenced from below, a cycle.
C14_Witness ==
    /\ dpc = "nodes"
    /\ stack = <<>>
    /\ visits # <<>>
    /\ visits[1] = 1
    /\ \E k \in 2..Len(visits) : visits[k] = 1

(* ----------------- a document loaded and dumped again ------------------ *)

\* The first load call of a parser, and nothing dumped so far.
FirstLoad == loads = 0 /\ dumps = 0
InFirstLoad == loads = 1 /\ dumps = 0

\* dump takes the document load returned; result keeps what it was.
DumpsLoaded ==
    /\ result.tag = "Ok"
    /\ pc = "idle"
    /\ dumps = 0
    /\ UNCHANGED <<loadVars, apiVars, handlerVars>>

NextRoundTrip ==
    \/ LoadStreamStartError /\ FirstLoad
            /\ UNCHANGED <<apiVars, emitterVars, dumpVars, handlerVars>>
    \/ LoadStreamEnd /\ FirstLoad
            /\ UNCHANGED <<apiVars, emitterVars, dumpVars, handlerVars>>
    \/ LoadParseError /\ FirstLoad
            /\ UNCHANGED <<apiVars, emitterVars, dumpVars, handlerVars>>
    \/ LoadDocumentStart /\ FirstLoad
            /\ UNCHANGED <<apiVars, emitterVars, dumpVars, handlerVars>>
    \/ LoadScalar /\ InFirstLoad
            /\ UNCHANGED <<apiVars, emitterVars, dumpVars, handlerVars>>
    \/ LoadAlias /\ InFirstLoad
            /\ UNCHANGED <<apiVars, emitterVars, dumpVars, handlerVars>>
    \/ LoadSequenceStart /\ InFirstLoad
            /\ UNCHANGED <<apiVars, emitterVars, dumpVars, handlerVars>>
    \/ LoadSequenceEnd /\ InFirstLoad
            /\ UNCHANGED <<apiVars, emitterVars, dumpVars, handlerVars>>
    \/ LoadMappingStart /\ InFirstLoad
            /\ UNCHANGED <<apiVars, emitterVars, dumpVars, handlerVars>>
    \/ LoadMappingEnd /\ InFirstLoad
            /\ UNCHANGED <<apiVars, emitterVars, dumpVars, handlerVars>>
    \/ LoadDocumentEnd /\ InFirstLoad
            /\ UNCHANGED <<apiVars, emitterVars, dumpVars, handlerVars>>
    \/ LoadNodesError /\ InFirstLoad
            /\ UNCHANGED <<apiVars, emitterVars, dumpVars, handlerVars>>
    \/ DumpOpenError(result.nodes) /\ DumpsLoaded
    \/ DumpEmpty(result.nodes) /\ DumpsLoaded
    \/ DumpEmptyCloseError(result.nodes) /\ DumpsLoaded
    \/ DumpDocumentStart(result.nodes) /\ DumpsLoaded
    \/ DumpDocumentStartError(result.nodes) /\ DumpsLoaded
    \/ DumpScalar
    \/ DumpSequenceStart
    \/ DumpMappingStart
    \/ DumpAlias
    \/ DumpNodePanic
    \/ DumpSequenceEnd
    \/ DumpMappingEnd
    \/ DumpDocumentEnd
    \/ DumpEmitError

SpecRoundTrip == Init /\ [][NextRoundTrip]_vars

\* The loop of load_nodes run over the events evs, as far as it gets.
RECURSIVE Composed(_)
Composed(evs) ==
    IF evs = <<>> THEN Step(<<>>, <<>>, <<>>, NoError, "", FALSE)
    ELSE LET r == Composed(Front(evs))
         IN  IF r.err # NoError \/ r.panic # "" \/ r.done THEN r
             ELSE load_nodes(r.nodes, r.aliases, r.ctx, Last(evs))

\* The document load makes of the events evs of one dump: the events
\* behind the document start are composed; a stream that ends without a
\* document start gives the document without nodes.
Reloaded(evs) ==
    LET starts == {k \in 1..Len(evs) : evs[k].type = "DocumentStart"}
    IN  IF starts = {} THEN Step(<<>>, <<>>, <<>>, NoError, "", TRUE)
        ELSE Composed(SubSeq(evs, MinOf(starts) + 1, Len(evs)))

\* What the round trip keeps of a document: of every node the kind, the
\* tag, the value, the items and the pairs, and so the sharing.
Structure(ns) ==
    [i \in 1..Len(ns) |->
        [kind |-> ns[i].kind, tag |-> ns[i].tag, value |-> ns[i].value,
         items |-> ns[i].items, pairs |-> ns[i].pairs]]

\* C15: the dump of a document load returned does not panic, and once it
\* returned Ok, load run over the events it emitted ends without error on a
\* document with the same number of nodes, and for every id the same kind,
\* tag, scalar value, items and pairs as the document dumped.
C15_RoundTrip ==
    /\ result.tag = "Ok" /\ dumps > 0 => panicked = ""
    /\ result.tag = "Ok" /\ dumps > 0 /\ dresult = "Ok" =>
        /\ Reloaded(emitted).err = NoError
        /\ Reloaded(emitted).panic = ""
        /\ Reloaded(emitted).done
        /\ Structure(Reloaded(emitted).nodes) = Structure(result.nodes)

\* C15 witness: a loaded document with a node referenced twice was dumped.
C15_Witness ==
    /\ result.tag = "Ok"
    /\ dresult = "Ok"
    /\ dumps > 0
    /\ \E e \in {emitted[k] : k \in 1..Len(emitted)} : e.type = "Alias"

(* ------------------ several documents on one emitter ------------------- *)

\* dump takes the document by value; the caller may build the next one.
MovedOn ==
    /\ doc' = <<>>
    /\ ret' = NoCall
    /\ UNCHANGED <<loadVars, handlerVars>>

NextStream ==
    \/ AddScalarOf({None})
    \/ AddSequenceOf({None})
    \/ DumpOpenError(doc) /\ MovedOn
    \/ DumpEmpty(doc) /\ MovedOn
    \/ DumpEmptyCloseError(doc) /\ MovedOn
    \/ DumpDocumentStart(doc) /\ MovedOn
    \/ DumpDocumentStartError(doc) /\ MovedOn
    \/ DumpScalar
    \/ DumpSequenceStart
    \/ DumpSequenceEnd
    \/ DumpDocumentEnd
    \/ DumpEmitError

SpecStream == Init /\ [][NextStream]_vars

\* The places of the events of the given type among evs.
Places(evs, type) == {k \in 1..Len(evs) : evs[k].type = type}

\* C16: over the dump calls made on one emitter, the emitter accepted at
\* most one StreamStart; it is opened exactly if it accepted one; and every
\* DocumentStart it accepted came after the StreamStart.
C16_OneStreamStart ==
    /\ Cardinality(Places(emitted, "StreamStart")) <= 1
    /\ opened <=> Places(emitted, "StreamStart") # {}
    /\ \A k \in Places(emitted, "DocumentStart") :
            \E j \in Places(emitted, "StreamStart") : j < k

\* C16 witness: the second dump call on an emitter emitted a document start.
C16_Witness ==
    /\ dumps >= 2
    /\ Cardinality(Places(emitted, "DocumentStart")) >= 2

(* ------------------ a document built by the caller --------------------- *)

NextBuild ==
    \/ AddScalarOf({None})
    \/ AddSequenceOf({None})
    \/ AddMappingOf({None})
    \/ AppendSequenceItem
    \/ AppendMappingPair
    \/ GetRootNode

SpecBuild == Init /\ [][NextBuild]_vars

(* ----------------------- claims on the document API -------------------- *)

\* The ids id names a node of ns.
Denotes(ns, id) == id \in 1..Len(ns)

\* ns2 is ns with child pushed at the end of the children of node id and
\* nothing else changed.
PushedItem(ns, ns2, id, item) ==
    /\ Len(ns2) = Len(ns)
    /\ ns2[id].items = ns[id].items \o <<item>>
    /\ ns2[id].pairs = ns[id].pairs
    /\ \A i \in 1..Len(ns) : i # id => ns2[i] = ns[i]
    /\ [ns2[id] EXCEPT !.items = <<>>] = [ns[id] EXCEPT !.items = <<>>]

PushedPair(ns, ns2, id, key, value) ==
    /\ Len(ns2) = Len(ns)
    /\ ns2[id].pairs = ns[id].pairs \o <<NodePair(key, value)>>
    /\ ns2[id].items = ns[id].items
    /\ \A i \in 1..Len(ns) : i # id => ns2[i] = ns[i]
    /\ [ns2[id] EXCEPT !.pairs = <<>>] = [ns[id] EXCEPT !.pairs = <<>>]

\* C17: in a document made by add and append calls every item id, key id
\* and value id is the id of one of its nodes.  On every such document and
\* for all ids passed, append_sequence_item is accepted exactly if the
\* sequence id names a Sequence node and the item id names a node, and
\* append_mapping_pair exactly if the mapping id names a Mapping node and
\* the key id and the value id name nodes; a call not accepted panics and
\* changes nothing; an accepted call pushes that one item or pair at the
\* end of that collection and changes no other node.  No call of the
\* document API removes a node.
C17_AppendChecked ==
    /\ [](\A k \in 1..Len(AllRefs(doc)) : Denotes(doc, AllRefs(doc)[k]))
    /\ [](\A sequence \in Ids(doc), item \in Ids(doc) :
            LET r == append_sequence_item(doc, sequence, item)
                ok == /\ Denotes(doc, sequence)
                      /\ doc[sequence].kind = "Sequence"
                      /\ Denotes(doc, item)
            IN  /\ r.panic = "" <=> ok
                /\ ~ok => r.nodes = doc
                /\ ok => PushedItem(doc, r.nodes, sequence, item))
    /\ [](\A mapping \in Ids(doc), key \in Ids(doc), value \in Ids(doc) :
            LET r == append_mapping_pair(doc, mapping, key, value)
                ok == /\ Denotes(doc, mapping)
                      /\ doc[mapping].kind = "Mapping"
                      /\ Denotes(doc, key)
                      /\ Denotes(doc, value)
            IN  /\ r.panic = "" <=> ok
                /\ ~ok => r.nodes = doc
                /\ ok => PushedPair(doc, r.nodes, mapping, key, value))
    /\ [][dpc = "idle" /\ dpc' = "idle" /\ dumps' = dumps =>
            /\ Len(doc') >= Len(doc)
            /\ \A i \in 1..Len(doc) : doc'[i].kind = doc[i].kind
            /\ doc' # doc /\ ret'.op = "append_sequence_item" =>
                    PushedItem(doc, doc', ret'.args[1], ret'.args[2])
            /\ doc' # doc /\ ret'.op = "append_mapping_pair" =>
                    PushedPair(doc, doc', ret'.args[1], ret'.args[2],
                               ret'.args[3])]_vars

\* C17 witness: a second, different item was appended to a sequence.
C17_Witness ==
    /\ ret.op = "append_sequence_item"
    /\ panicked = ""
    /\ Len(doc[ret.args[1]].items) = 2
    /\ doc[ret.args[1]].items[1] # doc[ret.args[1]].items[2]

\* C18: add_scalar, add_sequence and add_mapping return the number of nodes
\* after the call, which is 1 or more, and the node of that id is the one
\* added; the call appends that one node and leaves the nodes before it as
\* they were, so the ids returned are 1, 2, 3, .. in call order and an
\* earlier id keeps its node; get_root_node returns the node of id 1, and
\* None if the document has no node.
C18_AddReturnsId ==
    /\ [](ret.op \in {"add_scalar", "add_sequence", "add_mapping"} =>
            /\ ret.id = Len(doc)
            /\ ret.id >= 1
            /\ doc[ret.id].kind =
                    (CASE ret.op = "add_scalar" -> "Scalar"
                       [] ret.op = "add_sequence" -> "Sequence"
                       [] ret.op = "add_mapping" -> "Mapping")
            /\ doc[ret.id].items = <<>> /\ doc[ret.id].pairs = <<>>)
    /\ [](ret.op = "get_root_node" =>
            /\ ret.found <=> doc # <<>>
            /\ ret.found => ret.node = doc[1]
            /\ ~ret.found => ret.node = NoNode)
    /\ [][Len(doc') > Len(doc) =>
            /\ ret'.op \in {"add_scalar", "add_sequence", "add_mapping"}
            /\ ret'.id = Len(doc) + 1
            /\ doc' = Append(doc, doc'[Len(doc')])]_vars

\* C18 witness: the second add call returned 2, after an append to the
\* first node.
C18_Witness ==
    /\ ret.op = "add_mapping"
    /\ ret.id = 2
    /\ doc[1].kind = "Sequence"
    /\ doc[1].items = <<1>>

(* ------------------------- looking up a node --------------------------- *)

\* Bits of the index type i32 and of usize, scaled down: usize is the wider.
IndexBits == 4
UsizeBits == 6

\* Every value of the index type.
IndexValues == (-(2 ^ (IndexBits - 1)))..(2 ^ (IndexBits - 1) - 1)

\* `index as usize`: the sign is extended and the value taken modulo the
\* width of usize.
AsUsize(index) == index % (2 ^ UsizeBits)

\* slice::get and slice::get_mut at the 0-based place k.
SliceGet(op, ns, k) ==
    IF k < Len(ns) THEN Returned(op, 0, TRUE, ns[k + 1])
    ELSE Returned(op, 0, FALSE, NoNode)

\* What a lookup leaves behind: what it returned, and the message of its
\* panic ("" for none).
Looked(r, panic) == [ret |-> r, panic |-> panic]

\* Document::get_node and Document::get_node_mut: `index as usize - 1`
\* overflows for index 0; a build with overflow checks panics there, a
\* build without them wraps around.
get_node(op, ns, index, overflow_checks) ==
    IF AsUsize(index) = 0
    THEN IF overflow_checks
         THEN Looked(Returned(op, 0, FALSE, NoNode),
                     "attempt to subtract with overflow")
         ELSE Looked(SliceGet(op, ns, 2 ^ UsizeBits - 1), "")
    ELSE Looked(SliceGet(op, ns, AsUsize(index) - 1), "")

\* yaml_document_get_node.
yaml_document_get_node(ns, index) ==
    IF index > 0 /\ AsUsize(index) <= Len(ns)
    THEN Looked(Returned("yaml_document_get_node", 0, TRUE,
                         ns[AsUsize(index) - 1 + 1]), "")
    ELSE Looked(Returned("yaml_document_get_node", 0, FALSE, NoNode), "")

\* A lookup with the given index that left r behind.
LookedUp(index, r) ==
    /\ ret' = [r.ret EXCEPT !.args = <<index>>]
    /\ panicked' = r.panic
    /\ UNCHANGED <<doc, state, states, mark, stream_start_produced,
                   stream_end_produced, aliases, pc, nodes, ctx, result,
                   events, loads, prevAnchors, emitterVars, dumpVars,
                   handlerVars>>

GetNode ==
    /\ CanCall
    /\ \E index \in IndexValues, overflow_checks \in BOOLEAN :
        LookedUp(index, get_node("get_node", doc, index, overflow_checks))

GetNodeMut ==
    /\ CanCall
    /\ \E index \in IndexValues, overflow_checks \in BOOLEAN :
        LookedUp(index, get_node("get_node_mut", doc, index, overflow_checks))

YamlDocumentGetNode ==
    /\ CanCall
    /\ \E index \in IndexValues :
        LookedUp(index, yaml_document_get_node(doc, index))

NextGet ==
    \/ AddScalarOf({None})
    \/ AddSequenceOf({None})
    \/ AddMappingOf({None})
    \/ GetNode
    \/ GetNodeMut
    \/ YamlDocumentGetNode

SpecGet == Init /\ [][NextGet]_vars

\* C19: for every value of the index type, get_node, get_node_mut and
\* yaml_document_get_node do not panic; they return the node of that id if
\* the index is one of 1..nodes.len(), and None or NULL for every other
\* index, 0 and the negative ones among them.
C19_GetNodeTotal ==
    ret.op \in {"get_node", "get_node_mut", "yaml_document_get_node"} =>
        /\ panicked = ""
        /\ IF ret.args[1] \in 1..Len(doc)
           THEN ret.found /\ ret.node = doc[ret.args[1]]
           ELSE ~ret.found /\ ret.node = NoNode

\* C19 witness: get_node was called with index 0.
C19_Witness == ret.op = "get_node" /\ ret.args = <<0>>

(* ------------------------- the string output --------------------------- *)

\* The largest capacity of an output string, and the most bytes offered to
\* the write handler in one run.
MaxSize == 3
MaxOffered == 4

\* The bytes that are written, and the content of the caller's buffer
\* before anything is written to it.
Bytes == {"a", "b"}
Unwritten == "?"

\* Every byte string of the given length.
RECURSIVE BytesOf(_)
BytesOf(n) ==
    IF n = 0 THEN {<<>>}
    ELSE {Append(b, c) : b \in BytesOf(n - 1), c \in Bytes}

\* usize wrapping_sub.
wrapping_sub(x, rhs) == (x - rhs) % (2 ^ UsizeBits)

\* force_add: the sum, or a panic if it does not fit usize.
force_add(x, rhs) ==
    IF x + rhs < 2 ^ UsizeBits THEN [value |-> x + rhs, panic |-> ""]
    ELSE [value |-> x, panic |-> "arithmetic overflow"]

\* memcpy(buffer.wrapping_offset(at), src, n).
memcpy(buffer, at, src, n) ==
    [i \in 1..Len(buffer) |->
        IF i > at /\ i <= at + n THEN src[i - at] ELSE buffer[i]]

\* What a call of the write handler leaves behind.
Wrote(out, value, panic) == [output |-> out, value |-> value, panic |-> panic]

\* The handler with the comparison `<=` in place of `<`.
yaml_string_write_handler_NoExactFit(out, buffer) ==
    LET size == Len(buffer)
        room == wrapping_sub(out.size, out.size_written)
    IN IF room <= size
       THEN Wrote([out EXCEPT
                     !.buffer = memcpy(out.buffer, out.size_written, buffer, room),
                     !.size_written = out.size], 0, "")
       ELSE LET sum == force_add(out.size_written, size)
            IN Wrote([out EXCEPT
                        !.buffer = memcpy(out.buffer, out.size_written, buffer, size),
                        !.size_written = sum.value], 1, sum.panic)

\* yaml_string_write_handler.
yaml_string_write_handler(out, buffer) ==
    LET size == Len(buffer)
        room == wrapping_sub(out.size, out.size_written)
    IN IF room < size
       THEN Wrote([out EXCEPT
                     !.buffer = memcpy(out.buffer, out.size_written, buffer, room),
                     !.size_written = out.size], 0, "")
       ELSE LET sum == force_add(out.size_written, size)
            IN Wrote([out EXCEPT
                        !.buffer = memcpy(out.buffer, out.size_written, buffer, size),
                        !.size_written = sum.value], 1, sum.panic)

\* yaml_emitter_set_output_string with an output buffer of the given size;
\* it asserts that no write handler is set yet.
YamlEmitterSetOutputString ==
    /\ panicked = ""
    /\ \E size \in 0..MaxSize :
        IF write_handler = None
        THEN /\ write_handler' = "yaml_string_write_handler"
             /\ output' = [buffer |-> [i \in 1..size |-> Unwritten],
                           size |-> size, size_written |-> 0]
             /\ UNCHANGED panicked
        ELSE /\ panicked' = "assertion failed: (emitter.write_handler).is_none()"
             /\ UNCHANGED <<write_handler, output>>
    /\ UNCHANGED <<offered, written, doc, ret, state, states, mark,
                   stream_start_produced, stream_end_produced, aliases, pc,
                   nodes, ctx, result, events, loads, prevAnchors,
                   emitterVars, dumpVars, readVars,
                   settingVars, scanVars,
                   installVars, harnessVars>>

\* One call of the emitter's write handler.
YamlStringWriteHandler ==
    /\ panicked = ""
    /\ write_handler = "yaml_string_write_handler"
    /\ \E size \in 0..(MaxOffered - Len(offered)) : \E buffer \in BytesOf(size) :
        LET w == yaml_string_write_handler(output, buffer)
        IN /\ output' = w.output
           /\ panicked' = w.panic
           /\ offered' = offered \o buffer
           /\ written' = [called |-> TRUE, value |-> w.value, size |-> size,
                          at |-> output.size_written]
    /\ UNCHANGED <<write_handler, doc, ret, state, states, mark,
                   stream_start_produced, stream_end_produced, aliases, pc,
                   nodes, ctx, result, events, loads, prevAnchors,
                   emitterVars, dumpVars, readVars,
                   settingVars, scanVars,
                   installVars, harnessVars>>

NextWrite ==
    \/ YamlEmitterSetOutputString
    \/ YamlStringWriteHandler

SpecWrite == Init /\ [][NextWrite]_vars

\* The bytes of the output string that are written.
Content == SubSeq(output.buffer, 1, output.size_written)

\* The bytes offered by the last call of the write handler.
LastOffered == SubSeq(offered, Len(offered) - written.size + 1, Len(offered))

\* C20: with a string output of capacity size, size_written starts at 0 and
\* stays within 0..size; the written bytes are a prefix of all the bytes
\* offered; and a write of n bytes succeeds exactly when
\* n <= size - size_written: then the n bytes are at offset size_written
\* and size_written has grown by n, otherwise the handler returns 0, only
\* the bytes that fit are copied and size_written = size.  The handler's
\* addition never overflows.
C20_StringWrite ==
    write_handler = "yaml_string_write_handler" =>
        /\ panicked # "arithmetic overflow"
        /\ output.size_written \in 0..output.size
        /\ Len(output.buffer) = output.size
        /\ Len(Content) <= Len(offered)
        /\ Content = SubSeq(offered, 1, Len(Content))
        /\ ~written.called => output.size_written = 0
        /\ written.called =>
            IF written.size <= output.size - written.at
            THEN /\ written.value = 1
                 /\ output.size_written = written.at + written.size
                 /\ SubSeq(output.buffer, written.at + 1, output.size_written)
                        = LastOffered
            ELSE /\ written.value = 0
                 /\ output.size_written = output.size
                 /\ SubSeq(output.buffer, written.at + 1, output.size)
                        = SubSeq(LastOffered, 1, output.size - written.at)

\* C20 witness: after a write that succeeded, a write that does not fit has
\* failed and has filled the rest of the buffer.
C20_Witness ==
    /\ written.called
    /\ written.value = 0
    /\ written.at > 0
    /\ written.at < output.size
    /\ output.size_written = output.size
    /\ Unwritten \notin {output.buffer[i] : i \in 1..output.size}

(* -------------------------- the string input --------------------------- *)

\* The longest input string, and the largest size argument of one read.
MaxInput == 3
MaxRead == 3

\* The variables of Document::load but panicked.
loadState == <<state, states, mark, stream_start_produced,
               stream_end_produced, aliases, pc, nodes, ctx, result, events,
               loads, prevAnchors>>

\* What a call of the read handler leaves behind: parser.input, the bytes
\* copied to the caller's buffer, *size_read and the value returned.
ReadOut(in, buffer, size_read, value) ==
    [input |-> in, buffer |-> buffer, size_read |-> size_read, value |-> value]

\* The bytes memcpy copies from the place `from` of the input string.
Copied(in, from, size) == SubSeq(in.bytes, from - in.start + 1,
                                 from - in.start + size)

\* The handler with a cut that leaves the last byte of the input unread.
yaml_string_read_handler_DropLast(in, size) ==
    IF in.current = in.end THEN ReadOut(in, <<>>, 0, 1)
    ELSE LET left == in.end - in.current - 1
             n == IF size > left THEN left ELSE size
         IN ReadOut([in EXCEPT !.current = in.current + n],
                    Copied(in, in.current, n), n, 1)

\* The handler without the advance of input.current.
yaml_string_read_handler_NoAdvance(in, size) ==
    IF in.current = in.end THEN ReadOut(in, <<>>, 0, 1)
    ELSE LET left == in.end - in.current
             n == IF size > left THEN left ELSE size
         IN ReadOut(in, Copied(in, in.current, n), n, 1)

\* yaml_string_read_handler.
yaml_string_read_handler(in, size) ==
    IF in.current = in.end THEN ReadOut(in, <<>>, 0, 1)
    ELSE LET left == in.end - in.current
             n == IF size > left THEN left ELSE size
         IN ReadOut([in EXCEPT !.current = in.current + n],
                    Copied(in, in.current, n), n, 1)

\* yaml_parser_set_input_string with an input string of up to MaxInput
\* bytes; it asserts that no read handler is set yet.
YamlParserSetInputString ==
    /\ panicked = ""
    /\ \E size \in 0..MaxInput : \E bytes \in BytesOf(size) :
        IF read_handler = None
        THEN /\ read_handler' = "yaml_string_read_handler"
             /\ input' = [bytes |-> bytes, start |-> 0, current |-> 0,
                          end |-> 0 + size]
             /\ UNCHANGED panicked
        ELSE /\ panicked' = "assertion failed: (parser.read_handler).is_none()"
             /\ UNCHANGED <<read_handler, input>>
    /\ UNCHANGED <<delivered, read, loadState, apiVars, emitterVars, dumpVars,
                   writeVars, settingVars, scanVars,
                   installVars, harnessVars>>

\* One call of the parser's read handler.
YamlStringReadHandler ==
    /\ panicked = ""
    /\ read_handler = "yaml_string_read_handler"
    /\ \E size \in 0..MaxRead :
        LET r == yaml_string_read_handler(input, size)
        IN /\ input' = r.input
           /\ delivered' = delivered \o r.buffer
           /\ read' = [called |-> TRUE, value |-> r.value, size |-> size,
                       at |-> input.current, size_read |-> r.size_read,
                       buffer |-> r.buffer]
    /\ UNCHANGED <<read_handler, panicked, loadState, apiVars, emitterVars,
                   dumpVars, writeVars, settingVars, scanVars,
                   installVars, harnessVars>>

NextRead ==
    \/ YamlParserSetInputString
    \/ YamlStringReadHandler

SpecRead == Init /\ [][NextRead]_vars

\* The smaller of two numbers.
Min(a, b) == IF a < b THEN a ELSE b

\* C21: the string read handler always returns 1; start <= current <= end;
\* the bytes delivered so far are the input bytes before current, in order,
\* hence all of the input once it is exhausted; a call with size > 0 at the
\* position p delivers the min(size, end - p) bytes that start at p and
\* advances current by as many; it reports 0 bytes only at the end of the
\* input, and at the end of the input every call reports 0 bytes.
C21_StringRead ==
    read_handler = "yaml_string_read_handler" =>
        /\ input.start <= input.current
        /\ input.current <= input.end
        /\ input.end - input.start = Len(input.bytes)
        /\ delivered = SubSeq(input.bytes, 1, input.current - input.start)
        /\ input.current = input.end => delivered = input.bytes
        /\ read.called =>
            /\ read.value = 1
            /\ Len(read.buffer) = read.size_read
            /\ input.current = read.at + read.size_read
            /\ read.size > 0 =>
                /\ read.size_read = Min(read.size, input.end - read.at)
                /\ read.buffer = SubSeq(input.bytes, read.at - input.start + 1,
                        read.at - input.start + read.size_read)
                /\ read.size_read = 0 => read.at = input.end
            /\ read.at = input.end => read.size_read = 0

\* C21 witness: after an earlier delivery, a read that asked for more than
\* was left has delivered the rest of the input.
C21_Witness ==
    /\ read.called
    /\ read.at > input.start
    /\ read.size_read > 0
    /\ read.size > read.size_read
    /\ input.current = input.end
    /\ delivered = input.bytes

(* ------------------------ the emitter's settings ----------------------- *)

\* Bits of the type c_int of the arguments, scaled down.
CIntBits == 5

\* Every value of the argument type.
CIntValues == (-(2 ^ (CIntBits - 1)))..(2 ^ (CIntBits - 1) - 1)

\* A setter that clamps the indentation into 2..9.
yaml_emitter_set_indent_Clamp(indent) ==
    IF indent < 2 THEN 2 ELSE IF indent > 9 THEN 9 ELSE indent

\* yaml_emitter_set_indent: the new emitter.best_indent.
yaml_emitter_set_indent(indent) ==
    IF 1 < indent /\ indent < 10 THEN indent ELSE 2

\* A setter that keeps a negative width.
yaml_emitter_set_width_Kept(width) == width

\* yaml_emitter_set_width: the new emitter.best_width.
yaml_emitter_set_width(width) ==
    IF width >= 0 THEN width ELSE -1

YamlEmitterSetIndent ==
    /\ panicked = ""
    /\ \E indent \in CIntValues :
        /\ best_indent' = yaml_emitter_set_indent(indent)
        /\ requested' = [requested EXCEPT !.indent = <<indent>>]
    /\ UNCHANGED <<best_width, loadVars, apiVars, emitterVars, dumpVars,
                   writeVars, readVars, scanVars, installVars, harnessVars>>

YamlEmitterSetWidth ==
    /\ panicked = ""
    /\ \E width \in CIntValues :
        /\ best_width' = yaml_emitter_set_width(width)
        /\ requested' = [requested EXCEPT !.width = <<width>>]
    /\ UNCHANGED <<best_indent, loadVars, apiVars, emitterVars, dumpVars,
                   writeVars, readVars, scanVars, installVars, harnessVars>>

NextSettings ==
    \/ YamlEmitterSetIndent
    \/ YamlEmitterSetWidth

SpecSettings == Init /\ [][NextSettings]_vars

\* C22 as stated: yaml_emitter_set_indent clamps the indentation asked for
\* into 2..9: below 2 gives 2, above 9 gives 9, inside 2..9 is kept.
C22_IndentClamped ==
    requested.indent # <<>> =>
        best_indent = IF requested.indent[1] < 2 THEN 2
                      ELSE IF requested.indent[1] > 9 THEN 9
                      ELSE requested.indent[1]

\* C22 as amended: yaml_emitter_set_indent keeps an indentation inside
\* 2..9 and replaces every other one, below 2 or above 9, by 2.
C22_IndentKeptOrDefault ==
    requested.indent # <<>> =>
        best_indent = IF requested.indent[1] \in 2..9 THEN requested.indent[1]
                      ELSE 2

\* C22 witness: an indentation above 9 was asked for and 2 was set.
C22_Witness ==
    /\ requested.indent # <<>>
    /\ requested.indent[1] > 9
    /\ best_indent = 2

\* C23: after any sequence of yaml_emitter_set_indent and
\* yaml_emitter_set_width calls, the best_indent set by set_indent is in
\* 2..9, and the best_width set by set_width is the width asked for if that
\* is 0 or more and -1 if it is negative, hence -1 or more.
C23_SettingsInRange ==
    /\ requested.indent # <<>> => best_indent \in 2..9
    /\ requested.width # <<>> =>
        /\ best_width >= -1
        /\ requested.width[1] >= 0 => best_width = requested.width[1]
        /\ requested.width[1] < 0 => best_width = -1

\* C23 witness: an indentation above 9 and a width below -1 were asked
\* for, and 2 and -1 are set.
C23_Witness ==
    /\ requested.indent # <<>>
    /\ requested.indent[1] > 9
    /\ requested.width # <<>>
    /\ requested.width[1] < -1
    /\ best_width = -1
    /\ best_indent = 2

(* ------------------------------ scanner -------------------------------- *)
(* The Scanner is not part of the sources at hand.  It is modelled from    *)
(* the specification for block context: stream and document start, block   *)
(* sequence entries, simple keys and values, plain and double-quoted       *)
(* scalars.  Flow collections, directives, anchors, tags and comments are  *)
(* left out; their characters are not in the inputs.                       *)

\* What peek gives at the end of the input.
Z == "EOF"

IsBlank(c) == c \in {" ", "\t"}
IsBreak(c) == c = "\n"
IsBlankZ(c) == IsBlank(c) \/ IsBreak(c) \/ c = Z

\* Mark { index, line, column }, all counted from 0.
MarkAt(index, line, column) ==
    [index |-> index, line |-> line, column |-> column]

\* Display of a Mark.
Display_ZeroBased(m) ==
    "line " \o ToString(m.line) \o " column " \o ToString(m.column)

Display(m) ==
    "line " \o ToString(m.line + 1) \o " column " \o ToString(m.column + 1)

ScannerError(context, context_mark, problem, problem_mark) ==
    [kind |-> "scanner", context |-> context, context_mark |-> context_mark,
     problem |-> problem, problem_mark |-> problem_mark]

Token(type, value, start_mark, end_mark) ==
    [type |-> type, value |-> value, style |-> "Any",
     start_mark |-> start_mark, end_mark |-> end_mark]

ScalarToken(value, style, start_mark, end_mark) ==
    [type |-> "Scalar", value |-> value, style |-> style,
     start_mark |-> start_mark, end_mark |-> end_mark]

NoSimpleKey ==
    [possible |-> FALSE, required |-> FALSE, token_number |-> 0,
     mark |-> MarkAt(0, 0, 0)]

\* A new scanner with the input set to the given characters.  tokens holds
\* every token fetched so far, the first tokens_parsed of them are taken
\* from the queue.
NewScanner(text) == [NoScanner EXCEPT !.text = text]

Failed(s) == s.error.kind # "none"

\* The scanner once it has failed with the given error.
Fail(s, context, context_mark, problem) ==
    [s EXCEPT !.error = ScannerError(context, context_mark, problem, s.mark)]

\* peek: the character k places after the current one.
At(s, k) ==
    IF s.mark.index + k < Len(s.text) THEN s.text[s.mark.index + k + 1]
    ELSE Z

\* eat: over a character that is no line break, and over a line break.
Skip(s) ==
    [s EXCEPT !.mark = MarkAt(s.mark.index + 1, s.mark.line,
                              s.mark.column + 1)]

SkipLine(s) ==
    [s EXCEPT !.mark = MarkAt(s.mark.index + 1, s.mark.line + 1, 0)]

InsertAt(seq, i, x) ==
    SubSeq(seq, 1, i - 1) \o <<x>> \o SubSeq(seq, i, Len(seq))

\* "---" at the start of a line, followed by a blank, a break or the end.
AtDocumentIndicator(s) ==
    /\ s.mark.column = 0
    /\ At(s, 0) = "-" /\ At(s, 1) = "-" /\ At(s, 2) = "-"
    /\ IsBlankZ(At(s, 3))

\* Whitespace and line breaks up to the next token; a tab is whitespace
\* only where no simple key may start.
RECURSIVE scan_to_next_token(_)
scan_to_next_token(s) ==
    IF At(s, 0) = " " \/ (At(s, 0) = "\t" /\ ~s.simple_key_allowed)
    THEN scan_to_next_token(Skip(s))
    ELSE IF IsBreak(At(s, 0))
    THEN scan_to_next_token([SkipLine(s) EXCEPT !.simple_key_allowed = TRUE])
    ELSE s

\* A simple key candidate does not outlive its line.
stale_simple_keys(s) ==
    IF s.simple_key.possible /\ s.simple_key.mark.line < s.mark.line
    THEN IF s.simple_key.required
         THEN Fail(s, "while scanning a simple key", s.simple_key.mark,
                   "could not find expected ':'")
         ELSE [s EXCEPT !.simple_key.possible = FALSE]
    ELSE s

remove_simple_key(s) ==
    IF s.simple_key.possible /\ s.simple_key.required
    THEN Fail(s, "while scanning a simple key", s.simple_key.mark,
              "could not find expected ':'")
    ELSE [s EXCEPT !.simple_key.possible = FALSE]

save_simple_key(s) ==
    IF s.simple_key_allowed
    THEN LET r == remove_simple_key(s)
         IN  IF Failed(r) THEN r
             ELSE [r EXCEPT !.simple_key =
                      [possible |-> TRUE,
                       required |-> s.indent = s.mark.column,
                       token_number |-> Len(s.tokens),
                       mark |-> s.mark]]
    ELSE s

\* With the top of the indentation stack below the column: push the column
\* and put the block start token at the place number of the queue (at its
\* end for number -1).
roll_indent(s, column, number, type, m) ==
    IF s.indent < column
    THEN [s EXCEPT !.indents = Append(s.indents, s.indent),
                   !.indent = column,
                   !.tokens = IF number = -1
                              THEN Append(s.tokens, Token(type, "", m, m))
                              ELSE InsertAt(s.tokens, number + 1,
                                            Token(type, "", m, m))]
    ELSE s

\* A mutant of unroll_indent that closes one block at most.
unroll_indent_Once(s, column) ==
    IF s.indent > column
    THEN [s EXCEPT
            !.tokens = Append(s.tokens, Token("BlockEnd", "", s.mark, s.mark)),
            !.indent = Last(s.indents),
            !.indents = Front(s.indents)]
    ELSE s

\* Pop the indentation stack, a BlockEnd for each level, until its top is
\* at most the column.
RECURSIVE unroll_indent(_, _)
unroll_indent(s, column) ==
    IF s.indent > column
    THEN unroll_indent(
            [s EXCEPT
               !.tokens = Append(s.tokens,
                                 Token("BlockEnd", "", s.mark, s.mark)),
               !.indent = Last(s.indents),
               !.indents = Front(s.indents)],
            column)
    ELSE s

\* f(s) unless s has failed.
Then(s, f(_)) == IF Failed(s) THEN s ELSE f(s)

fetch_stream_start(s) ==
    [s EXCEPT !.simple_key = NoSimpleKey,
              !.simple_key_allowed = TRUE,
              !.stream_start_produced = TRUE,
              !.tokens = Append(s.tokens,
                                Token("StreamStart", "", s.mark, s.mark))]

fetch_stream_end(s) ==
    LET moved == IF s.mark.column # 0
                 THEN [s EXCEPT !.mark = MarkAt(s.mark.index,
                                                s.mark.line + 1, 0)]
                 ELSE s
    IN  Then(remove_simple_key(unroll_indent(moved, -1)),
             LAMBDA r :
                [r EXCEPT !.simple_key_allowed = FALSE,
                          !.tokens = Append(r.tokens,
                              Token("StreamEnd", "", r.mark, r.mark))])

fetch_document_indicator(s) ==
    Then(remove_simple_key(unroll_indent(s, -1)),
         LAMBDA r :
            LET e == Skip(Skip(Skip(r)))
            IN  [e EXCEPT !.simple_key_allowed = FALSE,
                          !.tokens = Append(r.tokens,
                              Token("DocumentStart", "", r.mark, e.mark))])

fetch_block_entry(s) ==
    IF ~s.simple_key_allowed
    THEN Fail(s, "", s.mark,
              "block sequence entries are not allowed in this context")
    ELSE Then(remove_simple_key(
                 roll_indent(s, s.mark.column, -1, "BlockSequenceStart",
                             s.mark)),
              LAMBDA r :
                 LET e == Skip(r)
                 IN  [e EXCEPT !.simple_key_allowed = TRUE,
                               !.tokens = Append(r.tokens,
                                   Token("BlockEntry", "", r.mark, e.mark))])

\* ':' : with a simple key candidate, the Key token (and the start of a
\* block mapping) go to the place of the candidate in the queue.
fetch_value(s) ==
    LET value(r) ==
            LET e == Skip(r)
            IN  [e EXCEPT !.tokens = Append(r.tokens,
                                Token("Value", "", r.mark, e.mark))]
    IN  IF s.simple_key.possible
        THEN LET k == s.simple_key
                 keyed == [s EXCEPT !.tokens =
                              InsertAt(s.tokens, k.token_number + 1,
                                       Token("Key", "", k.mark, k.mark))]
                 rolled == roll_indent(keyed, k.mark.column, k.token_number,
                                       "BlockMappingStart", k.mark)
             IN  value([rolled EXCEPT !.simple_key.possible = FALSE,
                                      !.simple_key_allowed = FALSE])
        ELSE IF ~s.simple_key_allowed
        THEN Fail(s, "", s.mark,
                  "mapping values are not allowed in this context")
        ELSE value([roll_indent(s, s.mark.column, -1, "BlockMappingStart",
                                s.mark)
                    EXCEPT !.simple_key_allowed = TRUE])

\* A scalar being scanned: the scanner, the value so far, the blanks and
\* the number of line breaks seen since the last character of the value,
\* and the mark behind that character.
Scanning(s, value, blanks, breaks, end_mark) ==
    [s |-> s, value |-> value, blanks |-> blanks, breaks |-> breaks,
     end_mark |-> end_mark]

RECURSIVE Breaks(_)
Breaks(n) == IF n = 0 THEN "" ELSE "\n" \o Breaks(n - 1)

\* Line folding: blanks within a line are kept, one line break becomes a
\* space, and of more line breaks all but the first are kept.
Folded(r) ==
    IF r.breaks = 0 THEN r.blanks
    ELSE IF r.breaks = 1 THEN " "
    ELSE Breaks(r.breaks - 1)

\* The characters of a plain scalar up to a blank, a break, the end of the
\* input or a ':' that is followed by one of these.
RECURSIVE PlainWord(_)
PlainWord(r) ==
    LET c == At(r.s, 0)
    IN  IF IsBlankZ(c) \/ (c = ":" /\ IsBlankZ(At(r.s, 1))) THEN r
        ELSE PlainWord(Scanning(Skip(r.s), r.value \o Folded(r) \o c, "", 0,
                                Skip(r.s).mark))

\* The blanks and breaks behind a word of a plain scalar of the given
\* indentation.
RECURSIVE PlainBlanks(_, _)
PlainBlanks(r, indent) ==
    LET c == At(r.s, 0)
    IN  IF IsBlank(c)
        THEN IF r.breaks > 0 /\ r.s.mark.column < indent /\ c = "\t"
             THEN [r EXCEPT !.s =
                      Fail(r.s, "while scanning a plain scalar", r.end_mark,
                           "found a tab character that violates indentation")]
             ELSE PlainBlanks(
                    [r EXCEPT !.s = Skip(r.s),
                              !.blanks = IF r.breaks = 0 THEN r.blanks \o c
                                         ELSE r.blanks],
                    indent)
        ELSE IF IsBreak(c)
        THEN PlainBlanks([r EXCEPT !.s = SkipLine(r.s), !.blanks = "",
                                   !.breaks = r.breaks + 1],
                         indent)
        ELSE r

RECURSIVE PlainLoop(_, _)
PlainLoop(r, indent) ==
    IF AtDocumentIndicator(r.s) THEN r
    ELSE LET w == PlainWord(r)
         IN  IF ~(IsBlank(At(w.s, 0)) \/ IsBreak(At(w.s, 0))) THEN w
             ELSE LET b == PlainBlanks(w, indent)
                  IN  IF Failed(b.s) \/ b.s.mark.column < indent THEN b
                      ELSE PlainLoop(b, indent)

\* A plain scalar; a simple key may start behind it if it ends with a line
\* break.
scan_plain_scalar(s) ==
    LET r == PlainLoop(Scanning(s, "", "", 0, s.mark), s.indent + 1)
    IN  IF Failed(r.s)
        THEN [r.s EXCEPT !.error.context_mark = s.mark]
        ELSE [r.s EXCEPT
                !.tokens = Append(s.tokens,
                    ScalarToken(r.value, "Plain", s.mark, r.end_mark)),
                !.simple_key_allowed =
                    IF r.breaks > 0 THEN TRUE ELSE s.simple_key_allowed]

fetch_plain_scalar(s) ==
    Then(save_simple_key(s),
         LAMBDA r : scan_plain_scalar([r EXCEPT !.simple_key_allowed = FALSE]))

\* The characters of a double-quoted scalar up to a blank, a break, the end
\* of the input or the closing quote.
RECURSIVE QuotedWord(_)
QuotedWord(r) ==
    LET c == At(r.s, 0)
    IN  IF IsBlankZ(c) \/ c = "\"" THEN r
        ELSE QuotedWord(Scanning(Skip(r.s), r.value \o c, "", 0,
                                 Skip(r.s).mark))

RECURSIVE QuotedBlanks(_)
QuotedBlanks(r) ==
    LET c == At(r.s, 0)
    IN  IF IsBlank(c)
        THEN QuotedBlanks(
                [r EXCEPT !.s = Skip(r.s),
                          !.blanks = IF r.breaks = 0 THEN r.blanks \o c
                                     ELSE r.blanks])
        ELSE IF IsBreak(c)
        THEN QuotedBlanks([r EXCEPT !.s = SkipLine(r.s), !.blanks = "",
                                    !.breaks = r.breaks + 1])
        ELSE r

\* A mutant of the loop that reports the end of the input at the mark
\* where the scalar started.
RECURSIVE QuotedLoop_StartMark(_, _)
QuotedLoop_StartMark(r, start_mark) ==
    IF AtDocumentIndicator(r.s)
    THEN [r EXCEPT !.s = Fail(r.s, "while scanning a quoted scalar",
                              start_mark,
                              "found unexpected document indicator")]
    ELSE IF At(r.s, 0) = Z
    THEN [r EXCEPT !.s = [Fail(r.s, "while scanning a quoted scalar",
                               start_mark, "found unexpected end of stream")
                          EXCEPT !.error.problem_mark = start_mark]]
    ELSE LET w == QuotedWord(r)
         IN  IF At(w.s, 0) = "\"" THEN w
             ELSE LET b == QuotedBlanks(w)
                  IN  QuotedLoop_StartMark(
                         Scanning(b.s, b.value \o Folded(b), "", 0,
                                  b.end_mark),
                         start_mark)

\* The loop of scan_flow_scalar: the input must not end, and no document
\* may start, before the closing quote.
RECURSIVE QuotedLoop(_, _)
QuotedLoop(r, start_mark) ==
    IF AtDocumentIndicator(r.s)
    THEN [r EXCEPT !.s = Fail(r.s, "while scanning a quoted scalar",
                              start_mark,
                              "found unexpected document indicator")]
    ELSE IF At(r.s, 0) = Z
    THEN [r EXCEPT !.s = Fail(r.s, "while scanning a quoted scalar",
                              start_mark, "found unexpected end of stream")]
    ELSE LET w == QuotedWord(r)
         IN  IF At(w.s, 0) = "\"" THEN w
             ELSE LET b == QuotedBlanks(w)
                  IN  QuotedLoop(Scanning(b.s, b.value \o Folded(b), "", 0,
                                          b.end_mark),
                                 start_mark)

\* A double-quoted scalar.
scan_flow_scalar(s) ==
    LET r == QuotedLoop(Scanning(Skip(s), "", "", 0, s.mark), s.mark)
    IN  IF Failed(r.s) THEN r.s
        ELSE LET e == Skip(r.s)
             IN  [e EXCEPT !.tokens = Append(s.tokens,
                      ScalarToken(r.value, "DoubleQuoted", s.mark, e.mark))]

fetch_flow_scalar(s) ==
    Then(save_simple_key(s),
         LAMBDA r : scan_flow_scalar([r EXCEPT !.simple_key_allowed = FALSE]))

\* The characters that start no plain scalar.
Indicators == {"-", ":", "\""}

\* fetch_next_token: the token that starts at the next character that is
\* no whitespace.
fetch_next_token(s) ==
    IF ~s.stream_start_produced THEN fetch_stream_start(s)
    ELSE Then(stale_simple_keys(scan_to_next_token(s)),
          LAMBDA t :
            LET u == unroll_indent(t, t.mark.column)
                c == At(u, 0)
                n == At(u, 1)
            IN  IF c = Z THEN fetch_stream_end(u)
                ELSE IF AtDocumentIndicator(u) THEN fetch_document_indicator(u)
                ELSE IF c = "-" /\ IsBlankZ(n) THEN fetch_block_entry(u)
                ELSE IF c = ":" /\ IsBlankZ(n) THEN fetch_value(u)
                ELSE IF c = "\"" THEN fetch_flow_scalar(u)
                ELSE IF \/ ~(IsBlankZ(c) \/ c \in Indicators)
                        \/ (c = "-" /\ ~IsBlank(n))
                        \/ (c = ":" /\ ~IsBlankZ(n))
                THEN fetch_plain_scalar(u)
                ELSE Fail(u, "while scanning for the next token", u.mark,
                          "found character that cannot start any token"))

\* More tokens are needed: the queue is empty, or its head may yet get a
\* Key token in front of it.
need_more_tokens(s) ==
    \/ s.tokens_parsed = Len(s.tokens)
    \/ /\ s.simple_key.possible
       /\ s.simple_key.token_number = s.tokens_parsed

RECURSIVE fetch_more_tokens(_)
fetch_more_tokens(s) ==
    IF Failed(s) THEN s
    ELSE IF s.tokens_parsed = Len(s.tokens)
    THEN fetch_more_tokens(fetch_next_token(s))
    ELSE LET t == stale_simple_keys(s)
         IN  IF Failed(t) THEN t
             ELSE IF need_more_tokens(t)
             THEN fetch_more_tokens(fetch_next_token(t))
             ELSE t

\* The head of the token queue, once fetch_more_tokens has run.
PeekToken(s) == s.tokens[s.tokens_parsed + 1]

\* Take the head off the token queue.
skip_token(s) ==
    [s EXCEPT !.tokens_parsed = s.tokens_parsed + 1,
              !.stream_end_produced = PeekToken(s).type = "StreamEnd"]

(* --------------------------- Scanner::next ---------------------------- *)

\* The longest of the inputs that are tried in every combination.
MaxText == 4

\* The characters of those inputs: a letter, the indicators of block
\* context, the quote, and the white space.
ScanChars == {"a", ":", "-", " ", "\n", "\"", "\t"}

RECURSIVE TextsOf(_)
TextsOf(n) ==
    IF n = 0 THEN {<<>>}
    ELSE {Append(t, c) : t \in TextsOf(n - 1), c \in ScanChars}

\* The inputs of the tests.
KeyValue ==
    <<"k", "e", "y", ":", " ", "v", "a", "l", "u", "e">>

KeyValueList ==
    <<"k", "e", "y", ":", " ", "v", "a", "l", "u", "e", "\n", "l", "i",
      "s", "t", ":", "\n", " ", " ", "-", " ", "i", "t", "e", "m", "1",
      "\n", " ", " ", "-", " ", "i", "t", "e", "m", "2">>

OneTab == <<"\t">>

MissingClosingQuote ==
    <<"-", "-", "-", "\n", "k", "e", "y", ":", " ", "\"", "m", "i", "s",
      "s", "i", "n", "g", " ", "c", "l", "o", "s", "i", "n", "g", " ", "q",
      "u", "o", "t", "e">>

Texts ==
    UNION {TextsOf(n) : n \in 0..MaxText}
        \cup {KeyValue, KeyValueList, OneTab, MissingClosingQuote}

\* Scanner::next: None after the stream end; else the head of the token
\* queue, filled as far as needed, or the error of the scanner.
scan(s) ==
    IF s.stream_end_produced \/ Failed(s) THEN s
    ELSE LET t == fetch_more_tokens(s)
         IN  IF Failed(t) THEN t ELSE skip_token(t)

ScannerSetInput ==
    /\ panicked = ""
    /\ ~scanner.input
    /\ \E text \in Texts : scanner' = [input |-> TRUE, s |-> NewScanner(text)]
    /\ UNCHANGED <<parser_borrowed, parser_owned, loadVars, apiVars,
                   emitterVars, dumpVars, writeVars, readVars, settingVars,
                   installVars, harnessVars>>

ScannerNext ==
    /\ panicked = ""
    /\ scanner.input
    /\ ~scanner.s.stream_end_produced
    /\ ~Failed(scanner.s)
    /\ scanner' = [scanner EXCEPT !.s = scan(scanner.s)]
    /\ UNCHANGED <<parser_borrowed, parser_owned, loadVars, apiVars,
                   emitterVars, dumpVars, writeVars, readVars, settingVars,
                   installVars, harnessVars>>

NextScan ==
    \/ ScannerSetInput
    \/ ScannerNext

SpecScan == Init /\ [][NextScan]_vars

\* The number of blocks left open by the tokens, walked in order: a block
\* start opens one, a BlockEnd closes the innermost; -1 if a BlockEnd finds
\* no block open.
RECURSIVE OpenBlocks(_)
OpenBlocks(toks) ==
    IF toks = <<>> THEN 0
    ELSE LET before == OpenBlocks(Front(toks))
             type == Last(toks).type
         IN  IF before = -1 THEN -1
             ELSE IF type \in {"BlockSequenceStart", "BlockMappingStart"}
             THEN before + 1
             ELSE IF type = "BlockEnd" THEN before - 1
             ELSE before

\* The tokens the scanner has returned so far.
Scanned(s) == SubSeq(s.tokens, 1, s.tokens_parsed)

\* C29: in the token stream of the scanner the first token is StreamStart;
\* every BlockEnd closes the innermost open block, so the blocks nest; and
\* when the stream has ended every BlockSequenceStart and
\* BlockMappingStart has got its BlockEnd.
C29_BlocksNest ==
    LET toks == Scanned(scanner.s)
    IN  /\ toks # <<>> => toks[1].type = "StreamStart"
        /\ \A i \in 2..Len(toks) : toks[i].type # "StreamStart"
        /\ OpenBlocks(toks) >= 0
        /\ OpenBlocks(scanner.s.tokens) >= 0
        /\ scanner.s.stream_end_produced =>
            /\ Last(toks).type = "StreamEnd"
            /\ OpenBlocks(toks) = 0

\* C29 witness: the stream has ended with a block closed inside a block
\* that was closed after it.
C29_Witness ==
    LET toks == Scanned(scanner.s)
    IN  /\ scanner.s.stream_end_produced
        /\ \E i \in 1..Len(toks) :
            /\ toks[i].type = "BlockEnd"
            /\ OpenBlocks(SubSeq(toks, 1, i)) = 1
            /\ i + 1 <= Len(toks)
            /\ toks[i + 1].type = "BlockEnd"

(* ---------------------------- Parser::parse ---------------------------- *)
(* The Parser is not part of the sources at hand.  Its automaton over the  *)
(* tokens of block context is modelled from the specification.             *)

ParserError(context, context_mark, problem, problem_mark) ==
    [kind |-> "parser", context |-> context, context_mark |-> context_mark,
     problem |-> problem, problem_mark |-> problem_mark]

\* An Event with the data the tokens of block context give it.
ParsedEvent(type, value, style, implicit, start_mark, end_mark) ==
    [type |-> type, value |-> value, style |-> style, implicit |-> implicit,
     start_mark |-> start_mark, end_mark |-> end_mark]

\* A new parser with the input set to the given characters; events holds
\* the events parse() has returned, refused counts the calls it refused.
NewParser(text) == [NoParser.q EXCEPT !.scanner = NewScanner(text)]

\* parse() returns the event and the automaton moves on.
Emit(q, event, st, sts) ==
    [q EXCEPT !.events = Append(q.events, event), !.state = st,
              !.states = sts]

\* parse() fails with an error of the parser.
Reject(q, context, context_mark, problem, problem_mark) ==
    [q EXCEPT !.error = ParserError(context, context_mark, problem,
                                    problem_mark)]

\* The parser with the token queue sc of its scanner.
Fetched(q, sc) == [q EXCEPT !.scanner = sc]

\* peek_token after the scanner has fetched: x, or the error of the scanner.
Peeked(q, x) ==
    IF Failed(q.scanner) THEN [q EXCEPT !.error = q.scanner.error] ELSE x

\* skip_token of the parser.
Skipped(q) == [q EXCEPT !.scanner = skip_token(q.scanner)]

process_empty_scalar(q, m, st, sts) ==
    Emit(q, ParsedEvent("Scalar", "", "Plain", TRUE, m, m), st, sts)

parse_node(q, token, block, indentless_sequence) ==
    IF indentless_sequence /\ token.type = "BlockEntry"
    THEN Emit(q, ParsedEvent("SequenceStart", "", "Block", TRUE,
                             token.start_mark, token.end_mark),
              "IndentlessSequenceEntry", q.states)
    ELSE IF token.type = "Scalar"
    THEN Emit(Skipped(q),
              ParsedEvent("Scalar", token.value, token.style, TRUE,
                          token.start_mark, token.end_mark),
              Last(q.states), Front(q.states))
    ELSE IF block /\ token.type = "BlockSequenceStart"
    THEN Emit(q, ParsedEvent("SequenceStart", "", "Block", TRUE,
                             token.start_mark, token.end_mark),
              "BlockSequenceFirstEntry", q.states)
    ELSE IF block /\ token.type = "BlockMappingStart"
    THEN Emit(q, ParsedEvent("MappingStart", "", "Block", TRUE,
                             token.start_mark, token.end_mark),
              "BlockMappingFirstKey", q.states)
    ELSE Reject(q, "while parsing a block node", token.start_mark,
                "did not find expected node content", token.start_mark)

\* In the functions of the states, r is the parser and token the token it
\* peeks first; t is the parser and next the token it peeks after it has
\* skipped the first one.

parse_stream_start(r, token) ==
    IF token.type = "StreamStart"
    THEN Emit(Skipped(r),
              ParsedEvent("StreamStart", "", "Any", FALSE,
                          token.start_mark, token.end_mark),
              "ImplicitDocumentStart", r.states)
    ELSE Reject(r, "", token.start_mark,
                "did not find expected <stream-start>", token.start_mark)

parse_document_start(r, token, implicit) ==
    IF implicit /\ token.type \notin {"DocumentStart", "StreamEnd"}
    THEN Emit(r, ParsedEvent("DocumentStart", "", "Any", TRUE,
                             token.start_mark, token.start_mark),
              "BlockNode", Append(r.states, "DocumentEnd"))
    ELSE IF token.type # "StreamEnd"
    THEN IF token.type = "DocumentStart"
         THEN Emit(Skipped(r),
                   ParsedEvent("DocumentStart", "", "Any", FALSE,
                               token.start_mark, token.end_mark),
                   "DocumentContent", Append(r.states, "DocumentEnd"))
         ELSE Reject(r, "", token.start_mark,
                     "did not find expected <document start>",
                     token.start_mark)
    ELSE Emit(Skipped(r),
              ParsedEvent("StreamEnd", "", "Any", FALSE,
                          token.start_mark, token.end_mark),
              "End", r.states)

parse_document_content(r, token) ==
    IF token.type \in {"DocumentStart", "StreamEnd"}
    THEN process_empty_scalar(r, token.start_mark, Last(r.states),
                              Front(r.states))
    ELSE parse_node(r, token, TRUE, FALSE)

parse_document_end(r, token) ==
    Emit(r, ParsedEvent("DocumentEnd", "", "Any", TRUE,
                        token.start_mark, token.start_mark),
         "DocumentStart", r.states)

parse_block_sequence_entry(r, token, t, next) ==
    IF token.type = "BlockEntry"
    THEN Peeked(t,
            IF next.type \notin {"BlockEntry", "BlockEnd"}
            THEN parse_node([t EXCEPT !.states =
                                Append(t.states, "BlockSequenceEntry")],
                            next, TRUE, FALSE)
            ELSE process_empty_scalar(t, token.end_mark,
                                      "BlockSequenceEntry", t.states))
    ELSE IF token.type = "BlockEnd"
    THEN Emit(Skipped(r),
              ParsedEvent("SequenceEnd", "", "Any", FALSE,
                          token.start_mark, token.end_mark),
              Last(r.states), Front(r.states))
    ELSE Reject(r, "while parsing a block collection", token.start_mark,
                "did not find expected '-' indicator", token.start_mark)

\* A mutant of parse_indentless_sequence_entry that leaves the sequence of
\* a mapping value open.
parse_indentless_sequence_entry_Open(r, token, t, next) ==
    IF token.type = "BlockEntry"
    THEN Peeked(t,
            IF next.type \notin {"BlockEntry", "Key", "Value", "BlockEnd"}
            THEN parse_node([t EXCEPT !.states =
                              Append(t.states, "IndentlessSequenceEntry")],
                            next, TRUE, FALSE)
            ELSE process_empty_scalar(t, token.end_mark,
                                      "IndentlessSequenceEntry", t.states))
    ELSE Emit(r, ParsedEvent("Scalar", "", "Plain", TRUE,
                             token.start_mark, token.start_mark),
              Last(r.states), Front(r.states))

parse_indentless_sequence_entry(r, token, t, next) ==
    IF token.type = "BlockEntry"
    THEN Peeked(t,
            IF next.type \notin {"BlockEntry", "Key", "Value", "BlockEnd"}
            THEN parse_node([t EXCEPT !.states =
                              Append(t.states, "IndentlessSequenceEntry")],
                            next, TRUE, FALSE)
            ELSE process_empty_scalar(t, token.end_mark,
                                      "IndentlessSequenceEntry", t.states))
    ELSE Emit(r, ParsedEvent("SequenceEnd", "", "Any", FALSE,
                             token.start_mark, token.start_mark),
              Last(r.states), Front(r.states))

parse_block_mapping_key(r, token, t, next) ==
    IF token.type = "Key"
    THEN Peeked(t,
            IF next.type \notin {"Key", "Value", "BlockEnd"}
            THEN parse_node([t EXCEPT !.states =
                                Append(t.states, "BlockMappingValue")],
                            next, TRUE, TRUE)
            ELSE process_empty_scalar(t, token.end_mark,
                                      "BlockMappingValue", t.states))
    ELSE IF token.type = "BlockEnd"
    THEN Emit(Skipped(r),
              ParsedEvent("MappingEnd", "", "Any", FALSE,
                          token.start_mark, token.end_mark),
              Last(r.states), Front(r.states))
    ELSE Reject(r, "while parsing a block mapping", token.start_mark,
                "did not find expected key", token.start_mark)

parse_block_mapping_value(r, token, t, next) ==
    IF token.type = "Value"
    THEN Peeked(t,
            IF next.type \notin {"Key", "Value", "BlockEnd"}
            THEN parse_node([t EXCEPT !.states =
                                Append(t.states, "BlockMappingKey")],
                            next, TRUE, TRUE)
            ELSE process_empty_scalar(t, token.end_mark,
                                      "BlockMappingKey", t.states))
    ELSE process_empty_scalar(r, token.start_mark, "BlockMappingKey",
                              r.states)

state_machine(r, token, t, next) ==
    CASE r.state = "StreamStart" -> parse_stream_start(r, token)
      [] r.state = "ImplicitDocumentStart" ->
            parse_document_start(r, token, TRUE)
      [] r.state = "DocumentStart" -> parse_document_start(r, token, FALSE)
      [] r.state = "DocumentContent" -> parse_document_content(r, token)
      [] r.state = "DocumentEnd" -> parse_document_end(r, token)
      [] r.state = "BlockNode" -> parse_node(r, token, TRUE, FALSE)
      [] r.state \in {"BlockSequenceFirstEntry", "BlockSequenceEntry"} ->
            parse_block_sequence_entry(r, token, t, next)
      [] r.state = "IndentlessSequenceEntry" ->
            parse_indentless_sequence_entry(r, token, t, next)
      [] r.state \in {"BlockMappingFirstKey", "BlockMappingKey"} ->
            parse_block_mapping_key(r, token, t, next)
      [] r.state = "BlockMappingValue" ->
            parse_block_mapping_value(r, token, t, next)

\* The second peek_token of a state: the token after the skipped one.
peek_next(r, token, t) ==
    state_machine(r, token, t, PeekToken(t.scanner))

\* The first peek_token of a state.
peek_first(r) ==
    Peeked(r, peek_next(r, PeekToken(r.scanner),
                        Fetched(r, fetch_more_tokens(skip_token(r.scanner)))))

\* The first states of a block collection skip its start token.
skip_first(q) ==
    IF q.state \in {"BlockSequenceFirstEntry", "BlockMappingFirstKey"}
    THEN Skipped(q) ELSE q

\* One step of the automaton.
parse_next(q) == peek_first(Fetched(q, fetch_more_tokens(q.scanner)))

\* A mutant of parse that returns a StreamEnd event again at the end.
parse_StreamEndAgain(q) ==
    IF q.scanner.stream_end_produced \/ q.state = "End"
    THEN [q EXCEPT !.events = Append(q.events, Last(q.events))]
    ELSE parse_next(skip_first(q))

\* Parser::parse: at the end of the stream the call is refused and no event
\* is returned.
parse(q) ==
    IF q.scanner.stream_end_produced \/ q.state = "End"
    THEN [q EXCEPT !.refused = 1]
    ELSE parse_next(skip_first(q))

(* ------------------------- parsers and inputs -------------------------- *)

\* parser.input of a parser that reads the given string.
StringInput(bytes) ==
    [bytes |-> bytes, start |-> 0, current |-> 0, end |-> 0 + Len(bytes)]

\* The reader fills its buffer: it calls the read handler for size bytes
\* until the handler reports none.
RECURSIVE ReadAll(_, _)
ReadAll(in, size) ==
    LET r == yaml_string_read_handler(in, size)
    IN  IF r.size_read = 0 \/ r.input.current = in.current THEN <<>>
        ELSE r.buffer \o ReadAll(r.input, size)

\* The parser has returned its last event or its error.
Finished(q) ==
    q.state = "End" \/ q.scanner.stream_end_produced \/ Failed(q)

\* The strings a parser borrows: every string of up to MaxInput characters
\* and the string of the test.
BorrowedInputs == UNION {TextsOf(n) : n \in 0..MaxInput} \cup {KeyValue}

\* Parser::set_input_string: the parser reads the caller's string through
\* the string read handler.
ParserSetInputString ==
    /\ panicked = ""
    /\ ~parser_borrowed.input
    /\ \E bytes \in BorrowedInputs : \E size \in 1..MaxRead :
        parser_borrowed' =
            [input |-> TRUE, bytes |-> bytes,
             q |-> NewParser(ReadAll(StringInput(bytes), size))]
    /\ UNCHANGED <<scanner, parser_owned, loadVars, apiVars, emitterVars,
                   dumpVars, writeVars, readVars, settingVars,
                   installVars, harnessVars>>

\* One call of parse() by the iterator over the borrowing parser.
ParseBorrowed ==
    /\ panicked = ""
    /\ parser_borrowed.input
    /\ ~Finished(parser_borrowed.q)
    /\ parser_borrowed' = [parser_borrowed EXCEPT !.q = parse(parser_borrowed.q)]
    /\ UNCHANGED <<scanner, parser_owned, loadVars, apiVars, emitterVars,
                   dumpVars, writeVars, readVars, settingVars,
                   installVars, harnessVars>>

\* Parser::set_input_owned and Parser::set_input_string_owned with one of
\* the given inputs.
ParserSetInputOwned(texts) ==
    /\ panicked = ""
    /\ ~parser_owned.input
    /\ \E text \in texts :
        parser_owned' = [input |-> TRUE, bytes |-> text, q |-> NewParser(text)]
    /\ UNCHANGED <<scanner, parser_borrowed, loadVars, apiVars, emitterVars,
                   dumpVars, writeVars, readVars, settingVars,
                   installVars, harnessVars>>

\* One call of parse() on the owning parser; one more call is made after
\* the end of the stream.
ParseOwned ==
    /\ panicked = ""
    /\ parser_owned.input
    /\ ~Failed(parser_owned.q)
    /\ parser_owned.q.refused = 0
    /\ parser_owned' = [parser_owned EXCEPT !.q = parse(parser_owned.q)]
    /\ UNCHANGED <<scanner, parser_borrowed, loadVars, apiVars, emitterVars,
                   dumpVars, writeVars, readVars, settingVars,
                   installVars, harnessVars>>

\* An owning parser on every input.
NextParse ==
    \/ ParserSetInputOwned(Texts)
    \/ ParseOwned

SpecParse == Init /\ [][NextParse]_vars

\* The borrowing parser runs to its end, then an owning parser is given
\* the same bytes.
NextInput ==
    \/ ParserSetInputString
    \/ ParseBorrowed
    \/ /\ Finished(parser_borrowed.q)
       /\ ParserSetInputOwned({parser_borrowed.bytes})
    \/ ParseOwned

SpecInput == Init /\ [][NextInput]_vars

(* ------------------------ owned and borrowed input --------------------- *)

\* The errors of two parsers are the same.
SameError(p, q) ==
    /\ p.error.kind = q.error.kind
    /\ Failed(p) => p.error = q.error

\* p has returned a prefix of the events q has returned.
EventsPrefix(p, q) ==
    /\ Len(p.events) <= Len(q.events)
    /\ p.events = SubSeq(q.events, 1, Len(p.events))

RECURSIVE BreaksBefore(_, _)
BreaksBefore(text, n) ==
    IF n = 0 THEN 0
    ELSE BreaksBefore(text, n - 1) + (IF text[n] = "\n" THEN 1 ELSE 0)

\* The number of characters between the last line break among the first n
\* characters of text and the n-th character.
RECURSIVE SinceBreak(_, _)
SinceBreak(text, n) ==
    IF n = 0 \/ text[n] = "\n" THEN 0 ELSE SinceBreak(text, n - 1) + 1

\* What a reader of the input expects to see for the place after the first
\* n characters, counting lines and columns from 1.
Shown(text, n) ==
    "line " \o ToString(BreaksBefore(text, n) + 1)
        \o " column " \o ToString(SinceBreak(text, n) + 1)

\* What the reader expects to see for the start of the line the scanner
\* opens at the end of an input that does not end with a line break.
ShownAfter(text) ==
    "line " \o ToString(BreaksBefore(text, Len(text)) + 2) \o " column 1"

\* C25: the problem mark of an error is displayed with its line and its
\* column counted from 1: the display names the line and the column a
\* reader of the input counts for the place of the mark (at the end of the
\* input, possibly the start of a line after it).  An error at the very
\* first character is displayed as "line 1 column 1", and a tab at the
\* start of the input is such an error: no event follows StreamStart.
C25_MarkDisplay ==
    LET q == parser_owned.q
        text == parser_owned.bytes
    IN  /\ Failed(q) =>
            /\ q.error.problem_mark.index <= Len(text)
            /\ \/ Display(q.error.problem_mark)
                        = Shown(text, q.error.problem_mark.index)
               \/ /\ q.error.problem_mark.index = Len(text)
                  /\ Display(q.error.problem_mark) = ShownAfter(text)
            /\ q.error.problem_mark.index = 0 =>
                    Display(q.error.problem_mark) = "line 1 column 1"
        /\ parser_owned.input /\ Len(text) > 0 /\ text[1] = "\t" =>
            /\ Len(q.events) <= 1
            /\ q.refused = 0
            /\ Failed(q) =>
                /\ q.error.problem = "found character that cannot start any token"
                /\ Display(q.error.problem_mark) = "line 1 column 1"

\* The parser of the input "\t" has failed at the tab.
C25_Witness ==
    /\ parser_owned.input
    /\ parser_owned.bytes = OneTab
    /\ Failed(parser_owned.q)
    /\ parser_owned.q.error.problem_mark = MarkAt(0, 0, 0)
    /\ Display(parser_owned.q.error.problem_mark) = "line 1 column 1"

\* The input opens a double-quoted scalar with its first character and ends
\* inside it: no quote closes it and no document indicator cuts it short.
EndsInsideQuotes(text) ==
    /\ Len(text) > 0
    /\ text[1] = "\""
    /\ \A i \in 2..Len(text) : text[i] \notin {"\"", "-"}

\* C26: when the input ends inside a double-quoted scalar, parsing fails;
\* the problem mark of the error is the position of the end of the input,
\* and the position of the quote that opened the scalar is only the mark of
\* the context.  For the input of the test, "---\nkey: \"missing closing
\* quote", the problem mark is displayed as "line 2 column 28".
C26_UnterminatedQuote ==
    LET q == parser_owned.q
        text == parser_owned.bytes
        inside == Failed(q) /\ q.error.problem = "found unexpected end of stream"
    IN  /\ inside =>
            /\ q.error.problem_mark.index = Len(text)
            /\ Display(q.error.problem_mark) = Shown(text, Len(text))
            /\ q.error.context_mark.index < Len(text)
            /\ text[q.error.context_mark.index + 1] = "\""
            /\ q.error.problem_mark # q.error.context_mark
        /\ parser_owned.input
                /\ (EndsInsideQuotes(text) \/ text = MissingClosingQuote) =>
            /\ q.state # "End"
            /\ q.refused = 0
            /\ Failed(q) => inside
        /\ parser_owned.input /\ EndsInsideQuotes(text) => Len(q.events) <= 2
        /\ text = MissingClosingQuote /\ Failed(q) =>
            Display(q.error.problem_mark) = "line 2 column 28"

\* The parser of the input of the test has failed at the end of the input.
C26_Witness ==
    /\ parser_owned.input
    /\ parser_owned.bytes = MissingClosingQuote
    /\ Failed(parser_owned.q)
    /\ parser_owned.q.error.problem = "found unexpected end of stream"
    /\ parser_owned.q.error.problem_mark = MarkAt(31, 1, 27)
    /\ parser_owned.q.error.context_mark = MarkAt(9, 1, 5)

(* ----------------------------- event streams --------------------------- *)

Malformed == <<"Malformed">>

\* What is open after the event of type e, given what was open before it:
\* the stream, a document without or with its root node, and the
\* collections around the place.
OpenAfter(before, e) ==
    LET top == IF before = <<>> THEN "" ELSE Last(before)
        rooted == IF top = "Document"
                  THEN Append(Front(before), "Rooted") ELSE before
    IN  CASE before = Malformed -> Malformed
          [] e = "StreamStart" ->
                IF before = <<>> THEN <<"Stream">> ELSE Malformed
          [] e = "StreamEnd" ->
                IF before = <<"Stream">> THEN <<"Closed">> ELSE Malformed
          [] e = "DocumentStart" ->
                IF before = <<"Stream">> THEN <<"Stream", "Document">>
                ELSE Malformed
          [] e = "DocumentEnd" ->
                IF before = <<"Stream", "Rooted">> THEN <<"Stream">>
                ELSE Malformed
          [] e \in {"Scalar", "Alias", "SequenceStart", "MappingStart"} ->
                IF top \notin {"Document", "Sequence", "Mapping"}
                THEN Malformed
                ELSE IF e = "SequenceStart" THEN Append(rooted, "Sequence")
                ELSE IF e = "MappingStart" THEN Append(rooted, "Mapping")
                ELSE rooted
          [] e = "SequenceEnd" ->
                IF top = "Sequence" THEN Front(before) ELSE Malformed
          [] e = "MappingEnd" ->
                IF top = "Mapping" THEN Front(before) ELSE Malformed
          [] OTHER -> Malformed

\* What is open after the first n of the events.
RECURSIVE Nesting(_, _)
Nesting(evs, n) ==
    IF n = 0 THEN <<>>
    ELSE OpenAfter(Nesting(evs, n - 1), evs[n].type)

\* The event of the parser as Document::load receives it.
Received(e) ==
    [type |-> e.type, anchor |-> None, tag |-> None, value |-> e.value,
     start_mark |-> e.start_mark.index, end_mark |-> e.end_mark.index]

\* The first panic of Document::load, called again and again on the events
\* from the i-th on after the StreamStart event ("" if there is none).
\* inside: the call is in the loop of load_nodes.
RECURSIVE LoadedFrom(_, _, _, _, _, _)
LoadedFrom(evs, i, ns, al, cx, inside) ==
    IF i > Len(evs) THEN ""
    ELSE IF ~inside
    THEN IF evs[i].type = "StreamEnd" THEN ""
         ELSE IF evs[i].type # "DocumentStart"
         THEN "Expected YAML_DOCUMENT_START_EVENT"
         ELSE LoadedFrom(evs, i + 1, <<>>, <<>>, <<>>, TRUE)
    ELSE LET st == load_nodes(ns, al, cx, Received(evs[i]))
         IN  IF st.panic # "" THEN st.panic
             ELSE IF st.done
             THEN LoadedFrom(evs, i + 1, <<>>, <<>>, <<>>, FALSE)
             ELSE LoadedFrom(evs, i + 1, st.nodes, st.aliases, st.ctx, TRUE)

\* The first panic of Document::load on the events of a stream.
LoadPanics(evs) ==
    IF evs = <<>> THEN ""
    ELSE IF evs[1].type # "StreamStart" THEN "expected stream start"
    ELSE LoadedFrom(evs, 2, <<>>, <<>>, <<>>, FALSE)

\* C27: the events the parser returns are well formed at every moment:
\* StreamStart is the first, documents are DocumentStart/DocumentEnd pairs
\* in the stream with one root node each, and sequences and mappings are
\* matched pairs, properly nested inside a document.  A stream parsed to
\* its end without error ends with StreamEnd and leaves nothing open, and
\* Document::load panics on none of the events.
C27_EventsNest ==
    LET q == parser_owned.q
        n == Len(q.events)
    IN  /\ Nesting(q.events, n) # Malformed
        /\ LoadPanics(q.events) = ""
        /\ q.state = "End" =>
            /\ ~Failed(q)
            /\ n >= 2
            /\ q.events[1].type = "StreamStart"
            /\ q.events[n].type = "StreamEnd"
            /\ Nesting(q.events, n) = <<"Closed">>
            /\ \A i \in 2..(n - 1) :
                q.events[i].type \notin {"StreamStart", "StreamEnd"}

\* The parser has returned the events of the mapping of the test, whose
\* second value is a sequence, up to StreamEnd.
C27_Witness ==
    /\ parser_owned.input
    /\ parser_owned.bytes = KeyValueList
    /\ parser_owned.q.state = "End"
    /\ Len(parser_owned.q.events) = 13
    /\ parser_owned.q.events[7].type = "SequenceStart"
    /\ parser_owned.q.events[10].type = "SequenceEnd"
    /\ parser_owned.q.events[11].type = "MappingEnd"

(* --------------------------- the end of a stream ----------------------- *)

\* The places of the StreamEnd events among the events returned.
StreamEnds(q) ==
    {i \in 1..Len(q.events) : q.events[i].type = "StreamEnd"}

\* What the calls of parse() have done so far: the events returned, the
\* error returned and the call refused.
Progress(q) ==
    Len(q.events) + q.refused + (IF Failed(q) THEN 1 ELSE 0)

Walked(evs, done) == [events |-> evs, done |-> done]

\* The events of node id of ns and of all below it, depth first: the event
\* of the node itself with its anchor, for a sequence its items in their
\* order, for a mapping key and value of its pairs in their order, then the
\* end of the collection; an Alias for a node the walk has been at.
RECURSIVE ExpectNode(_, _, _, _)
ExpectNode(ns, an, done, id) ==
    LET anchor == IF an[id].anchor # 0 THEN generate_anchor(an[id].anchor)
                  ELSE None
        node == ns[id]
        RECURSIVE Items(_, _)
        Items(seen, items) ==
            IF items = <<>> THEN Walked(<<>>, seen)
            ELSE LET first == ExpectNode(ns, an, seen, Head(items))
                     rest == Items(first.done, Tail(items))
                 IN  Walked(first.events \o rest.events, rest.done)
        RECURSIVE Pairs(_, _)
        Pairs(seen, pairs) ==
            IF pairs = <<>> THEN Walked(<<>>, seen)
            ELSE LET key == ExpectNode(ns, an, seen, Head(pairs).key)
                     value == ExpectNode(ns, an, key.done, Head(pairs).value)
                     rest == Pairs(value.done, Tail(pairs))
                 IN  Walked(key.events \o value.events \o rest.events,
                            rest.done)
    IN  IF id \in done
        THEN Walked(<<DumpEvent("Alias", anchor, None, "")>>, done)
        ELSE IF node.kind = "Sequence"
        THEN LET below == Items(done \cup {id}, node.items)
             IN  Walked(<<dump_sequence_start(node, anchor)>>
                            \o below.events
                            \o <<DumpEvent("SequenceEnd", None, None, "")>>,
                        below.done)
        ELSE IF node.kind = "Mapping"
        THEN LET below == Pairs(done \cup {id}, node.pairs)
             IN  Walked(<<dump_mapping_start(node, anchor)>>
                            \o below.events
                            \o <<DumpEvent("MappingEnd", None, None, "")>>,
                        below.done)
        ELSE Walked(<<dump_scalar(node, anchor)>>,
                    done \cup {id})

\* The events still to come for the work left on the stack of a dump.
RECURSIVE ExpectWork(_, _, _, _)
ExpectWork(ns, an, done, work) ==
    IF work = <<>> THEN <<>>
    ELSE IF Head(work).op = "dump_node"
    THEN LET first == ExpectNode(ns, an, done, Head(work).index)
         IN  first.events \o ExpectWork(ns, an, first.done, Tail(work))
    ELSE <<DumpEvent(Head(work).op, None, None, "")>>
            \o ExpectWork(ns, an, done, Tail(work))

\* The events the running dump is still to hand to the emitter.
ToCome ==
    ExpectWork(dnodes, anchors,
               {id \in 1..Len(anchors) : anchors[id].serialized}, stack)
        \o <<DumpEvent("DocumentEnd", None, None, "")>>

\* A step of dump hands over the event that is due: dump starts by handing
\* DocumentStart to the emitter, with the events of the root, depth first,
\* and DocumentEnd to come; every event it hands over then is the first of
\* those to come and leaves the rest to come; it returns Ok when
\* DocumentEnd, the last one, is handed over.
HandsOverInOrder ==
    /\ dpc = "idle" /\ dpc' = "nodes" =>
        /\ doc # <<>>
        /\ Last(emitted') = DumpEvent("DocumentStart", None, None, "")
        /\ ToCome' = ExpectNode(doc, anchors', {}, 1).events
                        \o <<DumpEvent("DocumentEnd", None, None, "")>>
    /\ dpc = "nodes" /\ dpc' = "nodes" =>
        /\ emitted' = Append(emitted, Head(ToCome))
        /\ ToCome' = Tail(ToCome)
    /\ dpc = "nodes" /\ dpc' = "idle" /\ dresult' = "Ok" =>
        /\ ToCome = <<DumpEvent("DocumentEnd", None, None, "")>>
        /\ emitted' = Append(emitted, Head(ToCome))

\* C30: the events of a dump of a document with nodes are DocumentStart,
\* the events of the root depth first (every collection start followed by
\* the events of its children, items in item order, key before value in
\* pair order, then its end), and DocumentEnd: every step of the dump hands
\* over the event that is due, none of its calls of dump_node ends it
\* before DocumentEnd is due, and the events handed over are properly
\* nested at every moment.
C30_DumpOrder ==
    /\ [](Nesting(emitted, Len(emitted)) # Malformed)
    /\ [][HandsOverInOrder /\ (dpc = "nodes" => dpc' # "panic")]_vars

\* C30 witness: dump returned Ok for a mapping with one pair, whose key is
\* a scalar and whose value is the mapping itself.
C30_Witness ==
    /\ dpc = "idle"
    /\ dresult = "Ok"
    /\ Len(emitted) >= 6
    /\ \E i \in 1..(Len(emitted) - 5) :
        /\ emitted[i].type = "DocumentStart"
        /\ emitted[i + 1].type = "MappingStart"
        /\ emitted[i + 1].anchor = "id1"
        /\ emitted[i + 2].type = "Scalar"
        /\ emitted[i + 3] = DumpEvent("Alias", "id1", None, "")
        /\ emitted[i + 4].type = "MappingEnd"
        /\ emitted[i + 5].type = "DocumentEnd"

(* ------------------------ dump of an empty document -------------------- *)

\* C31: a dump of a document without nodes that returns Ok hands neither
\* DocumentStart nor DocumentEnd to the emitter: it opens the emitter if it
\* was not opened (StreamStart) and closes it (StreamEnd, unless it was
\* closed).  StreamEnd is the last event the emitter takes: once the
\* emitter is closed no dump hands it a document any more.
C31_EmptyDocumentCloses ==
    /\ [](/\ Places(emitted, "StreamEnd") \subseteq {Len(emitted)}
          /\ closed <=> Places(emitted, "StreamEnd") # {})
    /\ [][/\ doc = <<>> /\ dumps' = dumps + 1 /\ dresult' = "Ok" =>
                /\ opened'
                /\ closed'
                /\ emitted' = emitted
                        \o (IF opened THEN <<>>
                            ELSE <<DumpEvent("StreamStart", None, None, "")>>)
                        \o (IF closed THEN <<>>
                            ELSE <<DumpEvent("StreamEnd", None, None, "")>>)
          /\ closed => emitted' = emitted]_vars

\* C31 witness: the first dump, of a document without nodes, opened and
\* closed the emitter; a later dump of a document with nodes returned Err
\* and handed it nothing.
C31_Witness ==
    /\ dumps >= 2
    /\ dpc = "idle"
    /\ dresult = "Err"
    /\ closed
    /\ emitted = <<DumpEvent("StreamStart", None, None, ""),
                   DumpEvent("StreamEnd", None, None, "")>>

(* --------------------------- the anchors after dump -------------------- *)

\* C32: whenever dump has returned, with Ok or with Err, the anchors of the
\* emitter are reset: the table of the document's nodes is empty and the
\* last anchor id is 0, so nothing of one dump is left for the next.
C32_AnchorsReset ==
    dpc = "idle" /\ panicked = "" =>
        /\ anchors = <<>>
        /\ last_anchor_id = 0

\* C32 witness: dump returned Ok after it had given a node an anchor, and
\* the anchors are reset.
C32_Witness ==
    /\ dpc = "idle"
    /\ dresult = "Ok"
    /\ \E k \in 1..Len(emitted) : emitted[k].anchor = "id1"
    /\ anchors = <<>>
    /\ last_anchor_id = 0

-----------------------------------------------------------------------------
\* Implicit flags of dumped nodes.

\* The tags the built nodes carry: none given (the default of the kind is
\* stored), the default tag of sequences, and a tag that is no default.
DumpTags == {None, DEFAULT_SEQUENCE_TAG, "!t"}

\* Documents of tagged nodes are built and dumped.
NextTagged ==
    \/ AddScalarOf(DumpTags) /\ dumps = 0
    \/ AddSequenceOf(DumpTags) /\ dumps = 0
    \/ AddMappingOf(DumpTags) /\ dumps = 0
    \/ AppendSequenceItem /\ dumps = 0
    \/ DumpOpenError(doc) /\ Moved
    \/ DumpEmpty(doc) /\ Moved
    \/ DumpEmptyCloseError(doc) /\ Moved
    \/ DumpDocumentStart(doc) /\ Moved
    \/ DumpDocumentStartError(doc) /\ Moved
    \/ DumpScalar
    \/ DumpSequenceStart
    \/ DumpMappingStart
    \/ DumpAlias
    \/ DumpNodePanic
    \/ DumpSequenceEnd
    \/ DumpMappingEnd
    \/ DumpDocumentEnd
    \/ DumpEmitError

SpecTagged == Init /\ [][NextTagged]_vars

\* The default tag of the kind of node an event starts.
DefaultTagOf(type) ==
    CASE type = "Scalar" -> DEFAULT_SCALAR_TAG
      [] type = "SequenceStart" -> DEFAULT_SEQUENCE_TAG
      [] type = "MappingStart" -> DEFAULT_MAPPING_TAG

\* C33: every Scalar event dump emits has plain_implicit equal to
\* quoted_implicit, both true exactly when the tag of the node is the default
\* scalar tag; every SequenceStart and MappingStart event has implicit true
\* exactly when the tag of the node is the default tag of its kind; and the
\* event carries the tag of the node.
C33_ImplicitFlags ==
    [][LET node == dnodes[Head(stack).index]
           e == emitted'[Len(emitted')]
       IN  /\ dpc = "nodes"
           /\ Len(emitted') = Len(emitted) + 1
           /\ e.type \in {"Scalar", "SequenceStart", "MappingStart"}
           => /\ e.tag = node.tag
              /\ IF e.type = "Scalar"
                 THEN /\ e.plain_implicit = e.quoted_implicit
                      /\ e.plain_implicit
                             <=> node.tag = DefaultTagOf("Scalar")
                 ELSE e.implicit <=> node.tag = DefaultTagOf(e.type)]_vars

\* An untagged sequence was dumped with implicit set, and inside it a scalar
\* tagged as a sequence with neither flag set.
C33_Witness ==
    /\ dpc = "idle"
    /\ dresult = "Ok"
    /\ Len(emitted) >= 4
    /\ emitted[3].type = "SequenceStart"
    /\ emitted[3].implicit
    /\ emitted[4].type = "Scalar"
    /\ emitted[4].tag = DEFAULT_SEQUENCE_TAG
    /\ ~emitted[4].plain_implicit
    /\ ~emitted[4].quoted_implicit

-----------------------------------------------------------------------------
\* The context stack of load.

\* The panics of load_sequence_end, load_mapping_end and load_node_add.
ContextPanics ==
    {"sequence_end without a current sequence",
     "mapping_end without a current mapping",
     "assertion failed",
     "document parent node is not a sequence or a mapping"}

\* The kind of collection an end event closes.
ClosedBy(type) == IF type = "SequenceEnd" THEN "Sequence" ELSE "Mapping"

\* C34: while load processes the events of the parser, the context stack
\* holds the ids of the collections started and not yet ended, outermost
\* first; no end event or attachment panics; an end event finds a node of
\* its kind on top, pops that one entry and sets the end mark of the node;
\* and the stack is empty when DocumentEnd is consumed.
C34_ContextStack ==
    /\ [](/\ panicked \notin ContextPanics
          /\ pc = "nodes" => ctx = Ref(events).open)
    /\ [][pc = "nodes" /\ Len(events') = Len(events) + 1 =>
            LET e == events'[Len(events')]
            IN  /\ e.type \in {"SequenceEnd", "MappingEnd"} =>
                    /\ ctx # <<>>
                    /\ nodes[Last(ctx)].kind = ClosedBy(e.type)
                    /\ ctx' = Front(ctx)
                    /\ nodes' = [nodes EXCEPT
                                    ![Last(ctx)].end_mark = e.end_mark]
                /\ e.type = "DocumentEnd" => ctx = <<>>]_vars

\* A sequence inside a mapping was just ended: the mapping alone is open.
C34_Witness ==
    /\ pc = "nodes"
    /\ events # <<>>
    /\ Last(events).type = "SequenceEnd"
    /\ ctx = <<1>>
    /\ nodes[1].kind = "Mapping"
    /\ nodes[2].kind = "Sequence"
    /\ nodes[2].end_mark = Last(events).end_mark
    /\ nodes[2].end_mark # nodes[2].start_mark + 1

-----------------------------------------------------------------------------
\* Node ids of a loaded document.

\* The node-creating events among the outcomes evs.
Creating(evs) ==
    SelectSeq(evs, LAMBDA e :
        e.type \in {"Scalar", "SequenceStart", "MappingStart"})

\* C35: the ids of a loaded document follow the order of the node-creating
\* events; a reference a collection p gets from a node-creating event is the
\* id just assigned and is greater than p; a reference it gets from an Alias
\* event is an id assigned before that event was consumed.
C35_IdsInEventOrder ==
    /\ [](pc = "nodes" \/ result.tag = "Ok" =>
            /\ Len(Loaded) = Len(Creating(events))
            /\ \A i \in 1..Len(Loaded) :
                /\ Loaded[i].start_mark = Creating(events)[i].start_mark
                /\ \A k \in 1..Len(ChildRefs(Loaded[i])) :
                        ChildRefs(Loaded[i])[k] \in 1..Len(Loaded))
    /\ [][/\ pc = "nodes" /\ pc' = "nodes"
          /\ Len(events') = Len(events) + 1
          /\ events'[Len(events')].type \in NodeEventTypes
          /\ ctx # <<>>
          => LET p == Last(ctx)
                 c == Last(ChildRefs(nodes'[p]))
             IN  /\ ChildRefs(nodes'[p]) = Append(ChildRefs(nodes[p]), c)
                 /\ IF events'[Len(events')].type = "Alias"
                    THEN c \in 1..Len(nodes) /\ Len(nodes') = Len(nodes)
                    ELSE c = Len(nodes) + 1 /\ c = Len(nodes') /\ c > p]_vars

\* A loaded sequence holds a scalar created after it and, by an alias,
\* itself.
C35_Witness ==
    /\ result.tag = "Ok"
    /\ Len(result.nodes) = 2
    /\ result.nodes[1].items = <<2, 1>>

-----------------------------------------------------------------------------
\* Installing an input and an output.

\* Most events in the queue of the emitter, and most yaml_emitter_delete
\* calls.
MaxQueued == 2
MaxDeletes == 2

\* The messages of the assertions of the set_ functions.
ReadHandlerSet == "assertion failed: (parser.read_handler).is_none()"
WriteHandlerSet == "assertion failed: (emitter.write_handler).is_none()"
ParserEncodingSet == "assertion failed: parser.encoding == YAML_ANY_ENCODING"
EmitterEncodingSet ==
    "assertion failed: emitter.encoding == YAML_ANY_ENCODING"

\* yaml_emitter_t::default(), as far as the model keeps the emitter.
DefaultEmitter ==
    [write_handler |-> None,
     output |-> [buffer |-> <<>>, size |-> 0, size_written |-> 0],
     encoding |-> YAML_ANY_ENCODING,
     events |-> 0,
     best_indent |-> 2,
     best_width |-> 80]

\* yaml_parser_set_input with a handler of the caller; it asserts that no
\* read handler is set yet.
YamlParserSetInput ==
    /\ panicked = ""
    /\ IF read_handler = None
       THEN read_handler' = "handler" /\ UNCHANGED panicked
       ELSE panicked' = ReadHandlerSet /\ UNCHANGED read_handler
    /\ UNCHANGED <<input, delivered, read, loadState, apiVars, emitterVars,
                   dumpVars, writeVars, settingVars, scanVars, installVars, harnessVars>>

\* yaml_parser_set_encoding; it asserts that the encoding is not set yet.
YamlParserSetEncoding ==
    /\ panicked = ""
    /\ \E encoding \in Encodings :
        IF parser_encoding = YAML_ANY_ENCODING
        THEN parser_encoding' = encoding /\ UNCHANGED panicked
        ELSE panicked' = ParserEncodingSet /\ UNCHANGED parser_encoding
    /\ UNCHANGED <<emitter_encoding, queued, deletes, loadState, apiVars,
                   emitterVars, dumpVars, writeVars, readVars, settingVars,
                   scanVars, harnessVars>>

\* yaml_emitter_set_output with a handler of the caller; it asserts that no
\* write handler is set yet.
YamlEmitterSetOutput ==
    /\ panicked = ""
    /\ IF write_handler = None
       THEN write_handler' = "handler" /\ UNCHANGED panicked
       ELSE panicked' = WriteHandlerSet /\ UNCHANGED write_handler
    /\ UNCHANGED <<output, offered, written, loadState, apiVars, emitterVars,
                   dumpVars, readVars, settingVars, scanVars, installVars, harnessVars>>

\* yaml_emitter_set_encoding; it asserts that the encoding is not set yet.
YamlEmitterSetEncoding ==
    /\ panicked = ""
    /\ \E encoding \in Encodings :
        IF emitter_encoding = YAML_ANY_ENCODING
        THEN emitter_encoding' = encoding /\ UNCHANGED panicked
        ELSE panicked' = EmitterEncodingSet /\ UNCHANGED emitter_encoding
    /\ UNCHANGED <<parser_encoding, queued, deletes, loadState, apiVars,
                   emitterVars, dumpVars, writeVars, readVars, settingVars,
                   scanVars, harnessVars>>

\* yaml_emitter_emit puts the event into the queue of the emitter, which it
\* then works off or leaves waiting for more events.
YamlEmitterEmit ==
    /\ panicked = ""
    /\ write_handler # None
    /\ queued < MaxQueued
    /\ queued' \in {0, queued + 1}
    /\ UNCHANGED <<parser_encoding, emitter_encoding, deletes, loadVars,
                   apiVars, emitterVars, dumpVars, writeVars, readVars,
                   settingVars, scanVars, harnessVars>>

\* Mutant of YamlEmitterDelete: the write handler stays set.
YamlEmitterDelete_KeepsHandler ==
    /\ panicked = ""
    /\ deletes < MaxDeletes
    /\ deletes' = deletes + 1
    /\ output' = DefaultEmitter.output
    /\ emitter_encoding' = DefaultEmitter.encoding
    /\ queued' = DefaultEmitter.events
    /\ best_indent' = DefaultEmitter.best_indent
    /\ best_width' = DefaultEmitter.best_width
    /\ UNCHANGED <<write_handler, offered, written, requested,
                   parser_encoding, loadVars, apiVars, emitterVars, dumpVars,
                   readVars, scanVars, harnessVars>>

\* yaml_emitter_delete: the buffers and the queue are emptied and the
\* emitter is overwritten with its default.
YamlEmitterDelete ==
    /\ panicked = ""
    /\ deletes < MaxDeletes
    /\ deletes' = deletes + 1
    /\ write_handler' = DefaultEmitter.write_handler
    /\ output' = DefaultEmitter.output
    /\ emitter_encoding' = DefaultEmitter.encoding
    /\ queued' = DefaultEmitter.events
    /\ best_indent' = DefaultEmitter.best_indent
    /\ best_width' = DefaultEmitter.best_width
    /\ UNCHANGED <<offered, written, requested, parser_encoding, loadVars,
                   apiVars, emitterVars, dumpVars, readVars, scanVars,
                   harnessVars>>

NextInstall ==
    \/ YamlParserSetInputString
    \/ YamlParserSetInput
    \/ YamlParserSetEncoding
    \/ YamlEmitterSetOutputString
    \/ YamlEmitterSetOutput
    \/ YamlEmitterSetEncoding
    \/ YamlEmitterEmit
    \/ YamlEmitterDelete

SpecInstall == Init /\ [][NextInstall]_vars

\* C36: a read handler, once set, and its input are never replaced, and a
\* write handler, once set, and its output only by yaml_emitter_delete; an
\* encoding other than Any is never replaced on the parser and on the
\* emitter only by yaml_emitter_delete; a call that finds the handler or the
\* encoding set fails its assertion, and no call fails one otherwise;
\* yaml_emitter_delete leaves no write handler, an empty queue and the
\* encoding Any, and an output set after it is accepted.
C36_InstallOnce ==
    [][/\ read_handler # None =>
            read_handler' = read_handler /\ input' = input
       /\ write_handler # None
            /\ (write_handler' # write_handler \/ output' # output)
            => deletes' = deletes + 1
       /\ parser_encoding # YAML_ANY_ENCODING =>
            parser_encoding' = parser_encoding
       /\ emitter_encoding # YAML_ANY_ENCODING
            /\ emitter_encoding' # emitter_encoding
            => deletes' = deletes + 1
       /\ deletes' = deletes + 1 =>
            /\ write_handler' = None
            /\ queued' = 0
            /\ emitter_encoding' = YAML_ANY_ENCODING
            /\ panicked' = ""
       /\ write_handler = None /\ write_handler' # None => panicked' = ""
       /\ panicked' # panicked =>
            \/ panicked' = ReadHandlerSet /\ read_handler # None
            \/ panicked' = WriteHandlerSet /\ write_handler # None
            \/ /\ panicked' = ParserEncodingSet
               /\ parser_encoding # YAML_ANY_ENCODING
            \/ /\ panicked' = EmitterEncodingSet
               /\ emitter_encoding # YAML_ANY_ENCODING]_vars

\* An emitter with an output, an encoding and a queued event was deleted and
\* got an output again.
C36_Witness ==
    /\ deletes = 1
    /\ write_handler = "yaml_string_write_handler"
    /\ output.size = MaxSize
    /\ emitter_encoding = YAML_ANY_ENCODING
    /\ queued = 0
    /\ parser_encoding = "Utf8"
    /\ read_handler = "handler"
    /\ panicked = ""

-----------------------------------------------------------------------------
\* The emitter test harness (run-emitter-test-suite).

\* The longest VALUE of a line, and the characters it is made of.
MaxValue == 2
ValueChars == {"x", "&", "<", ">", " ", "\\", "n"}

RECURSIVE ValuesOf(_)
ValuesOf(n) ==
    IF n = 0 THEN {<<>>}
    ELSE {Append(v, c) : v \in ValuesOf(n - 1), c \in ValueChars}

\* The STYLE sigils and the styles they name.
Sigils == {":", "'", "\"", "|", ">"}

StyleOf(sigil) ==
    CASE sigil = ":" -> "YAML_PLAIN_SCALAR_STYLE"
      [] sigil = "'" -> "YAML_SINGLE_QUOTED_SCALAR_STYLE"
      [] sigil = "\"" -> "YAML_DOUBLE_QUOTED_SCALAR_STYLE"
      [] sigil = "|" -> "YAML_LITERAL_SCALAR_STYLE"
      [] sigil = ">" -> "YAML_FOLDED_SCALAR_STYLE"

\* The fields a =VAL line is written from.
ValFields ==
    [anchor : {NoStr, SomeStr(<<"a">>)},
     tag : {NoStr, SomeStr(<<"t">>)},
     sigil : Sigils,
     value : UNION {ValuesOf(n) : n \in 0..MaxValue}]

\* The line `=VAL [&anchor] [<tag>] STYLE VALUE` of the fields f.
ValLine(f) ==
    <<"=", "V", "A", "L">>
        \o (IF f.anchor.some THEN <<" ", "&">> \o f.anchor.value ELSE <<>>)
        \o (IF f.tag.some THEN <<" ", "<">> \o f.tag.value \o <<">">>
            ELSE <<>>)
        \o <<" ", f.sigil>> \o f.value

\* The other lines that are tried.
OtherLines ==
    {<<"+", "S", "T", "R">>,
     <<"-", "S", "T", "R">>,
     <<"+", "D", "O", "C", " ", "-", "-", "-">>,
     <<"-", "D", "O", "C">>,
     <<"+", "M", "A", "P", " ", "&", "a", " ", "<", "t", ">">>,
     <<"-", "M", "A", "P">>,
     <<"+", "S", "E", "Q">>,
     <<"-", "S", "E", "Q">>,
     <<"=", "A", "L", "I", " ", "*", "a">>,
     <<"=", "A", "L", "I">>,
     <<"?">>}

\* str::starts_with
starts_with(s, prefix) ==
    Len(s) >= Len(prefix) /\ SubSeq(s, 1, Len(prefix)) = prefix

\* str::split_once on a character: the part before its first occurrence
\* and the part after it.
split_once(s, ch) ==
    LET at == {i \in 1..Len(s) : s[i] = ch}
    IN  IF at = {} THEN [found |-> FALSE, before |-> <<>>, tail |-> <<>>]
        ELSE [found |-> TRUE, before |-> SubSeq(s, 1, MinOf(at) - 1),
              tail |-> SubSeq(s, MinOf(at) + 1, Len(s))]

\* get_anchor
get_anchor(sigil, line) ==
    LET from_sigil == split_once(line, sigil)
        until_space == split_once(from_sigil.tail, " ")
    IN  IF ~from_sigil.found THEN NoStr
        ELSE IF until_space.found THEN SomeStr(until_space.before)
        ELSE IF from_sigil.tail # <<>> THEN SomeStr(from_sigil.tail)
        ELSE NoStr

\* get_tag
get_tag(line) ==
    LET from_angle_open == split_once(line, "<")
        until_angle_close == split_once(from_angle_open.tail, ">")
    IN  IF ~from_angle_open.found \/ ~until_angle_close.found THEN NoStr
        ELSE SomeStr(until_angle_close.before)

\* What get_value leaves behind: the style, the value, and the message of
\* its panic.
Got(style, value, panic) == [style |-> style, value |-> value, panic |-> panic]

\* The characters the escapes stand for.
Unescaped(ch) ==
    CASE ch = "\\" -> "\\"
      [] ch = "0" -> "NUL"
      [] ch = "b" -> "BS"
      [] ch = "n" -> "LF"
      [] ch = "r" -> "CR"
      [] ch = "t" -> "TAB"
      [] OTHER -> ""

\* The second loop of get_value: the value with its escapes decoded.
RECURSIVE unescape(_, _)
unescape(chars, buffer) ==
    IF chars = <<>> THEN Got("", buffer, "")
    ELSE IF Head(chars) # "\\"
    THEN unescape(Tail(chars), Append(buffer, Head(chars)))
    ELSE IF Len(chars) = 1 THEN Got("", buffer, "unterminated escape sequence")
    ELSE IF Unescaped(chars[2]) = ""
    THEN Got("", buffer, "invalid escape character")
    ELSE unescape(Tail(Tail(chars)), Append(buffer, Unescaped(chars[2])))

\* get_value: its first loop looks behind each space for a STYLE sigil.
RECURSIVE get_value(_)
get_value(remainder) ==
    LET split == split_once(remainder, " ")
    IN  IF ~split.found THEN Got("", <<>>, "invalid line")
        ELSE IF split.tail = <<>>
        THEN Got("", <<>>, "string should not be empty")
        ELSE IF Head(split.tail) \in Sigils
        THEN LET value == unescape(Tail(split.tail), <<>>)
             IN  Got(StyleOf(Head(split.tail)), value.value, value.panic)
        ELSE get_value(split.tail)

\* What a turn of the loop of unsafe_main makes of the line: the event, or
\* the message of a panic, or the error that ends the loop.
Made(event, panic, err) == [event |-> event, panic |-> panic, err |-> err]

\* The event of a line that starts a collection.
CollectionStart(type, line, style) ==
    [type |-> type, anchor |-> get_anchor("&", line), tag |-> get_tag(line),
     implicit |-> FALSE, style |-> style]

\* The event of a =VAL line.
ScalarOf(line, got) ==
    [type |-> "Scalar", anchor |-> get_anchor("&", line),
     tag |-> get_tag(line), value |-> got.value,
     plain_implicit |-> ~get_tag(line).some,
     quoted_implicit |-> ~get_tag(line).some, style |-> got.style]

\* The branches of unsafe_main on the start of the line.
unsafe_main(line) ==
    LET rest == SubSeq(line, 5, Len(line))
    IN  CASE starts_with(line, <<"+", "S", "T", "R">>) ->
                Made([type |-> "StreamStart", encoding |-> "Utf8"], "", "")
          [] starts_with(line, <<"-", "S", "T", "R">>) ->
                Made([type |-> "StreamEnd"], "", "")
          [] starts_with(line, <<"+", "D", "O", "C">>) ->
                Made([type |-> "DocumentStart",
                      implicit |->
                          ~starts_with(rest, <<" ", "-", "-", "-">>)],
                     "", "")
          [] starts_with(line, <<"-", "D", "O", "C">>) ->
                Made([type |-> "DocumentEnd",
                      implicit |->
                          ~starts_with(rest, <<" ", ".", ".", ".">>)],
                     "", "")
          [] starts_with(line, <<"+", "M", "A", "P">>) ->
                Made(CollectionStart("MappingStart", line,
                                     "YAML_BLOCK_MAPPING_STYLE"), "", "")
          [] starts_with(line, <<"-", "M", "A", "P">>) ->
                Made([type |-> "MappingEnd"], "", "")
          [] starts_with(line, <<"+", "S", "E", "Q">>) ->
                Made(CollectionStart("SequenceStart", line,
                                     "YAML_BLOCK_SEQUENCE_STYLE"), "", "")
          [] starts_with(line, <<"-", "S", "E", "Q">>) ->
                Made([type |-> "SequenceEnd"], "", "")
          [] starts_with(line, <<"=", "V", "A", "L">>) ->
                IF get_value(line).panic # ""
                THEN Made(NoEvent, get_value(line).panic, "")
                ELSE Made(ScalarOf(line, get_value(line)), "", "")
          [] starts_with(line, <<"=", "A", "L", "I">>) ->
                IF get_anchor("*", line).some
                THEN Made([type |-> "Alias",
                           anchor |-> get_anchor("*", line).value], "", "")
                ELSE Made(NoEvent, "no alias name", "")
          [] OTHER -> Made(NoEvent, "", "Unknown event")

\* What yaml_emitter_delete does to the emitter.
EmitterDeleted ==
    /\ deletes < MaxDeletes
    /\ deletes' = deletes + 1
    /\ write_handler' = DefaultEmitter.write_handler
    /\ output' = DefaultEmitter.output
    /\ emitter_encoding' = DefaultEmitter.encoding
    /\ queued' = DefaultEmitter.events
    /\ best_indent' = DefaultEmitter.best_indent
    /\ best_width' = DefaultEmitter.best_width

\* Most lines of one input.
MaxTurns == 1

\* One turn of the loop of unsafe_main on a line written from the fields f:
\* the event is made and handed to yaml_emitter_emit; an unknown line and a
\* failure of the emitter end the loop, and the emitter is deleted.
HarnessTurn(f, line) ==
    LET made == unsafe_main(line)
    IN  /\ panicked = ""
        /\ write_handler = "handler"
        /\ turns < MaxTurns
        /\ turns' = turns + 1
        /\ line_buffer' = line
        /\ fields' = f
        /\ line_event' = made.event
        /\ panicked' = made.panic
        /\ IF made.panic # ""
           THEN UNCHANGED <<write_handler, output, emitter_encoding, queued,
                            best_indent, best_width, deletes>>
           ELSE IF made.err # ""
           THEN EmitterDeleted
           ELSE \/ /\ queued < MaxQueued
                   /\ queued' \in {0, queued + 1}
                   /\ UNCHANGED <<write_handler, output, emitter_encoding,
                                  best_indent, best_width, deletes>>
                \/ EmitterDeleted
        /\ UNCHANGED <<offered, written, requested, parser_encoding,
                       loadState, apiVars, emitterVars, dumpVars, readVars,
                       scanVars>>

HarnessValLine == \E f \in ValFields : HarnessTurn(f, ValLine(f))

HarnessOtherLine == \E line \in OtherLines : HarnessTurn(NoFields, line)

\* The input ends: the loop is left and the emitter deleted.
HarnessEnd == write_handler = "handler" /\ YamlEmitterDelete

\* unsafe_main starts on an input: it sets the output of the emitter it
\* initialized, and its line and its event are new.
HarnessStart ==
    /\ panicked = ""
    /\ write_handler = None
    /\ write_handler' = "handler"
    /\ line_buffer' = <<>>
    /\ fields' = NoFields
    /\ line_event' = NoEvent
    /\ turns' = 0
    /\ UNCHANGED <<output, offered, written, loadVars, apiVars, emitterVars,
                   dumpVars, readVars, settingVars, scanVars, installVars>>

NextHarness ==
    \/ HarnessStart
    \/ HarnessValLine
    \/ HarnessOtherLine
    \/ HarnessEnd

SpecHarness == Init /\ [][NextHarness]_vars

\* The VALUE of the fields is made of characters and complete escapes.
Escaped(value) == unescape(value, <<>>).panic = ""

\* C37: for a line `=VAL [&anchor] [<tag>] STYLE VALUE` whose VALUE is made
\* of characters and the escapes, the scalar event has the anchor and the
\* tag of the fields before the sigil, none where the field is absent,
\* whatever '&', '<' and '>' occur in VALUE; its style is the one the sigil
\* names and its value the text behind the sigil with the escapes decoded.
C37_ValFields ==
    fields # NoFields /\ Escaped(fields.value) =>
        /\ panicked = ""
        /\ line_event.type = "Scalar"
        /\ line_event.anchor = fields.anchor
        /\ line_event.tag = fields.tag
        /\ line_event.style = StyleOf(fields.sigil)
        /\ line_event.value = unescape(fields.value, <<>>).value

\* A line with both fields and with '&' and '<' in its value gave the
\* anchor and the tag of the fields.
C37_Witness ==
    /\ fields # NoFields
    /\ line_buffer = <<"=", "V", "A", "L", " ", "&", "a", " ", "<", "t", ">",
                       " ", ">", "&", "<">>
    /\ line_event.type = "Scalar"
    /\ line_event.anchor = SomeStr(<<"a">>)
    /\ line_event.tag = SomeStr(<<"t">>)
    /\ line_event.style = "YAML_FOLDED_SCALAR_STYLE"
    /\ line_event.value = <<"&", "<">>

====
